---- MODULE Spec2Model ----
(***************************************************************************)
(* Verification model of the MotionArcade gesture/interaction core.        *)
(*                                                                         *)
(*  SpecSticky : AirPianoClient.gameLoop, sticky hand tracking             *)
(*  SpecHold   : MathChallengeClient, hold-to-confirm under React batching *)
(*  SpecCam    : useHandTracking camera session + MathChallenge start flow *)
(***************************************************************************)
EXTENDS Integers, Sequences, FiniteSets, TLC

Null == "null"
\* `null` in the place of a hand's landmark array
NoHand == 0

(***************************************************************************)
(* Part I.  Sticky hand tracking (AirPianoClient.gameLoop)                 *)
(***************************************************************************)

\* bound: number of distinct landmark arrays a hand can carry in the model
MaxLm == 2
\* numHands passed to HandLandmarker.createFromOptions
NumHands == 2
\* bound: cap of the consecutive-absence history counter
MaxAbsent == 4

Labels == {"Left", "Right"}
LandmarkIds == 1..MaxLm

\* One detected hand: its handedness[i][0].categoryName and its landmarks[i]
Hands == [categoryName : Labels, lm : LandmarkIds]

\* A FrameResult: 0..NumHands hands in the order the detector reports them
Frames == UNION {[1..n -> Hands] : n \in 0..NumHands}

VARIABLES
  landmarks,        \* hook state `landmarks` as seen by the gameLoop closure
  handedness,       \* hook state `handedness` as seen by the gameLoop closure
  trackedHandRef,   \* trackedHandRef.current
  handLandmarks,    \* local `handLandmarks` computed by the last gameLoop run
  sOp,              \* history: last AirPiano operation
  absentRun,        \* history: consecutive gameLoop runs without the locked label
  lostRun,          \* history: value of absentRun before the last gameLoop run
  runLabel,         \* history: label that was locked when the absence run began
  runBroken,        \* history: trackedHandRef left runLabel at some tick of the run
  unboundBefore,    \* history: trackedHandRef was null when the last gameLoop run began
  \* -- MathChallengeClient (Part II)
  st,            \* committed React state of MathChallengeClient and of the hook
  pend,          \* state after the queued updates; psDirty/cpDirty: new array/object identity queued
  timer,         \* pending setTimeout of the timer effect
  fetches,       \* generateMathProblem calls awaiting completion
  holdTicks,     \* history: hold timer callbacks since the current hold started
  held,          \* history: candidate of the current hold
  nConfirm,      \* history: handleAnswer calls of the HOLDING branch since the hold started
  confirmedWith, \* history: value submitted by the last confirmation
  devBeforeElapse, \* history: a differing count was observed when the last hold tick fired
  everConfirmed, \* history: a confirmation happened in this game
  released,      \* history: a count other than confirmedWith was observed since the confirmation
  errPhase,      \* history: "none", "handled" (error effect ran), "idle" (IDLE committed after it)
  \* -- useHandTracking camera session (Part III)
  videoMounted,  \* videoRef.current !== null
  srcObject,     \* stream attached to the mounted element, 0 for null
  live,          \* streams whose tracks have not been stopped
  streamCount,   \* streams granted so far
  calls,         \* startVideo calls in flight: pc and the element they captured
  readyPending,  \* a videoReady 'loadeddata' listener waits on the mounted element
  requestRef,    \* a predictWebcam animation frame is scheduled
  handLandmarkerRef, \* handLandmarkerRef.current !== null
  \* -- AirPianoClient controller (Part IV)
  apGameState,   \* gameState and gameMode of AirPianoClient
  countdown,     \* countdown state of AirPianoClient
  intervals,     \* countdownInterval ids created by startCountdown and not cleared
  firedInSecond, \* intervals whose callback already ran in the current second
  selectCalls,   \* selectMode calls suspended at `await startVideo()`
  apSrcObject,   \* videoRef.current.srcObject !== null in AirPianoClient
  decInSecond,   \* history: amount by which countdown fell in the current second
  expiries,      \* history: setGameState('PLAYING') calls since the last startCountdown
  \* -- gesture classifier (Part V)
  cPc,           \* countFingers: "idle", "loop", "returned" or "threw" (TypeError)
  cLen,          \* countFingers: landmarks.length of the frame being counted
  cI,            \* countFingers: loop index i
  cHandLen,      \* number of landmarks of the hand presented last
  cRaised,       \* countFingers: raisedFingers of the hand counted last
  cTotal,        \* countFingers: totalFingers
  gResult,       \* isPointing / isPinching of the hand presented last
  gExt,          \* history: which of index, middle, ring, pinky had its tip above its PIP joint
  gD2,           \* history: squared distance thumb tip - index tip of that hand
  cThumb,        \* history: label and thumb geometry of the hand counted last
  cFour,         \* history: raised fingers other than the thumb of the hand counted last
  \* -- one evaluation per second of a Math Challenge question (Part VI)
  tick,          \* number of the current tick, 0 before the first sample
  phase,         \* "timer", "sample" or "settle": what the tick does next
  shown,         \* history: fingers shown to the camera at ticks 1..tick
  confirmedAt,   \* history: tick of the first confirmed hold, 0 if none
  \* -- SketchAndScoreClient role assignment (Part VII)
  skGameState,   \* gameState of SketchAndScoreClient
  skDrawingHand, \* drawingHand: null, 'Left' or 'Right'
  skRoles,       \* array index (from 1, 0 for null) of the hand held by
                 \* drawingHandLandmarks / gestureHandLandmarks after the last effect run
  skAux,         \* countdown, feedback, isLoading / error of the hook, detectedFingers === 10,
                 \* pending startVideo / generateShapeToDraw / evaluatePlayerDrawing calls,
                 \* and the history field decs: countdown decrements since it was set
  \* -- AirPianoClient finger smoothing (Part VIII)
  smoothed,      \* smoothedFingersRef.current: per lane a point, `set` false for a hole
  smRaw,         \* history: newY of each lane in the last gameLoop run, NoRaw if none
  smTicks,       \* history: gameLoop runs so far
  \* -- MathChallenge2Client (Part IX)
  m2,            \* committed React state of MathChallenge2Client and `landmarks` of the hook
  m2p,           \* state after the queued updates; lmDirty/bubDirty/cpDirty: new identity queued
  m2timer,       \* pending setTimeout of the timer effect
  m2fetch,       \* generateMathProblem2 calls awaiting completion
  m2h,           \* history: handleAnswer calls of the last render (calls) and, for the
                 \* current problem, handleAnswer calls (answers) and score increments (gain)
  \* -- MathChallengeClient round clock (Part X)
  roundTicks,    \* history: one-second timer callbacks since the current problem was displayed
  \* -- AirPianoClient across stop and start (Part XI)
  stale,         \* history: "fresh" (landmarks published since the last start or stop),
                 \* "stopped" (stopVideo ran since), "restarted" (and selectMode after it)
  \* -- useHandTracking: stopVideo during startVideo (Part XII)
  stopRace,       \* history: the last stopVideo() ran while a startVideo call was in
                 \* flight, and startGame has not been invoked since
  \* -- Ping Pong Ball (Part XIII): component state, refs and history
  pb,
  \* -- Ping Pong (Part XIV): component state, refs, the closure of the running loop, history
  pp,
  \* -- HandTrackingPaddleLogic (Part XV): mount state and scheduled animation-frame callbacks
  pd,
  \* -- Sketch & Score drawing (Part XVI): component state, lastPosition and tick history
  dr,
  \* -- AirPianoClient game logic (Part XVII): state, refs, pending timeouts, history
  pk

stickyVars == <<landmarks, handedness, trackedHandRef, handLandmarks,
                sOp, absentRun, lostRun, runLabel, runBroken, unboundBefore>>
gameVars == <<st, pend, timer, fetches>>
holdHist == <<holdTicks, held, nConfirm, confirmedWith, devBeforeElapse,
              everConfirmed, released, errPhase>>
camVars == <<videoMounted, srcObject, live, streamCount, calls, readyPending, requestRef,
            handLandmarkerRef>>
pianoVars == <<apGameState, countdown, intervals, firedInSecond, selectCalls, apSrcObject,
              decInSecond, expiries>>
airPianoVars == <<stickyVars, pianoVars>>
classVars == <<cPc, cLen, cI, cHandLen, cRaised, cTotal, gResult, gExt, gD2, cThumb, cFour>>
scenVars == <<tick, phase, shown, confirmedAt>>
sketchVars == <<skGameState, skDrawingHand, skRoles, skAux>>
smoothVars == <<smoothed, smRaw, smTicks>>
bubbleVars == <<m2, m2p, m2timer, m2fetch, m2h>>
roundVars == <<roundTicks>>
staleVars == <<stale>>
raceVars == <<stopRace>>
ballVars == <<pb>>
pongVars == <<pp>>
paddleVars == <<pd>>
drawVars == <<dr>>
keysVars == <<pk>>
auxVars == <<classVars, scenVars, sketchVars, smoothVars, bubbleVars, roundVars, staleVars, raceVars, ballVars, pongVars, paddleVars, drawVars, keysVars>>

\* handedness.findIndex(hand => hand[0] && hand[0].categoryName === label); 0 stands for -1
RECURSIVE findIndexFrom(_, _, _)
findIndexFrom(hd, label, i) ==
  IF i > Len(hd) THEN 0
  ELSE IF hd[i] = label THEN i
  ELSE findIndexFrom(hd, label, i + 1)

findIndexFirstSlot(hd, label) == IF Len(hd) > 0 THEN 1 ELSE 0

findIndex(hd, label) == findIndexFrom(hd, label, 1)

\* "First detection, lock onto this hand"
LockAlwaysRelock(tracked, hd) == IF Len(hd) > 0 THEN hd[1] ELSE tracked

LockOnFirst(tracked, hd) ==
  IF tracked = Null /\ Len(hd) > 0 THEN hd[1] ELSE tracked

\* else-branch of `handIndex !== -1`: "If tracked hand is lost, clear it so it can re-lock"
ClearWhenLost(tracked, lms) == Null

ClearIfLost(tracked, lms) == IF Len(lms) = 0 THEN Null ELSE tracked

\* The "Sticky Hand Tracking Logic" block of gameLoop: returns the new
\* trackedHandRef.current and the local handLandmarks
\* (mutant: the tick that locks resolves no data)
StickyStepLockOnly(lms, hd, tracked) ==
  IF Len(lms) > 0 /\ Len(hd) > 0
  THEN LET t1 == LockOnFirst(tracked, hd)
           handIndex == IF tracked = Null THEN 0 ELSE findIndex(hd, t1)
       IN IF handIndex # 0
          THEN [tracked |-> t1, hand |-> lms[handIndex]]
          ELSE [tracked |-> ClearIfLost(t1, lms), hand |-> NoHand]
  ELSE [tracked |-> tracked, hand |-> NoHand]

StickyStep(lms, hd, tracked) ==
  IF Len(lms) > 0 /\ Len(hd) > 0
  THEN LET t1 == LockOnFirst(tracked, hd)
           handIndex == findIndex(hd, t1)
       IN IF handIndex # 0
          THEN [tracked |-> t1, hand |-> lms[handIndex]]
          ELSE [tracked |-> ClearIfLost(t1, lms), hand |-> NoHand]
  ELSE [tracked |-> tracked, hand |-> NoHand]

\* Sketch & Score: role assignment by handedness label (drawing role)
RECURSIVE drawingHandLoop(_, _, _, _, _)
drawingHandLoop(lms, hd, drawingHand, i, acc) ==
  IF i > Len(hd) THEN acc
  ELSE drawingHandLoop(lms, hd, drawingHand, i + 1,
                       IF hd[i] = drawingHand THEN lms[i] ELSE acc)

drawingHandLandmarks(lms, hd, drawingHand) ==
  IF drawingHand # Null THEN drawingHandLoop(lms, hd, drawingHand, 1, NoHand) ELSE NoHand

FrameLandmarks(f) == [i \in 1..Len(f) |-> f[i].lm]
FrameHandedness(f) == [i \in 1..Len(f) |-> f[i].categoryName]

StickyInit ==
  /\ landmarks = <<>>
  /\ handedness = <<>>
  /\ trackedHandRef = Null
  /\ handLandmarks = NoHand
  /\ sOp = "init"
  /\ absentRun = 0
  /\ lostRun = 0
  /\ runLabel = Null
  /\ runBroken = FALSE
  /\ unboundBefore = FALSE

\* One run of gameLoop with `landmarks` = lms and `handedness` = hd in its closure
gameLoopOn(lms, hd) ==
  LET r   == StickyStep(lms, hd, trackedHandRef)
      inRun   == absentRun > 0
      label   == IF inRun THEN runLabel ELSE trackedHandRef
      absent  == label # Null /\ findIndex(hd, label) = 0
  IN /\ landmarks' = lms
     /\ handedness' = hd
     /\ trackedHandRef' = r.tracked
     /\ handLandmarks' = r.hand
     /\ sOp' = "gameLoop"
     /\ unboundBefore' = (trackedHandRef = Null)
     /\ absentRun' = IF ~absent THEN 0
                     ELSE IF absentRun < MaxAbsent THEN absentRun + 1 ELSE absentRun
     /\ lostRun' = IF inRun /\ ~absent THEN absentRun ELSE 0
     /\ runLabel' = IF absent \/ inRun THEN label ELSE Null
     /\ runBroken' = IF inRun THEN (runBroken \/ r.tracked # runLabel)
                     ELSE (absent /\ r.tracked # label)

\* One tick: the hook publishes frame f (setHandedness / setLandmarks) and the
\* re-subscribed gameLoop runs on it
GameLoop(f) ==
  /\ gameLoopOn(FrameLandmarks(f), FrameHandedness(f))
  /\ UNCHANGED <<pianoVars, gameVars, holdHist, camVars, auxVars>>

\* selectMode, the part after `await startVideo()`: "Reset for new game"
selectModeRefs ==
  /\ trackedHandRef' = Null
  /\ sOp' = "selectMode"
  /\ absentRun' = 0
  /\ lostRun' = 0
  /\ runLabel' = Null
  /\ runBroken' = FALSE
  /\ unboundBefore' = FALSE
  /\ UNCHANGED <<landmarks, handedness, handLandmarks>>

SelectModeReset ==
  /\ selectModeRefs
  /\ UNCHANGED <<pianoVars, gameVars, holdHist, camVars, auxVars>>

\* exitGame: "Reset on exit"
exitGameRefs ==
  /\ trackedHandRef' = Null
  /\ sOp' = "exitGame"
  /\ absentRun' = 0
  /\ lostRun' = 0
  /\ runLabel' = Null
  /\ runBroken' = FALSE
  /\ unboundBefore' = FALSE
  /\ UNCHANGED <<landmarks, handedness, handLandmarks>>

ExitGameReset ==
  /\ exitGameRefs
  /\ UNCHANGED <<pianoVars, gameVars, holdHist, camVars, auxVars>>

StickyNext ==
  \/ \E f \in Frames : GameLoop(f)
  \/ SelectModeReset
  \/ ExitGameReset

(***************************************************************************)
(* Part II.  MathChallengeClient: controller and hold-to-confirm.          *)
(*                                                                         *)
(* React semantics: `st` is the state of the last committed render, `pend` *)
(* the state after the queued setState calls.  Render commits `pend`, then *)
(* runs, in declaration order, every effect whose dependencies changed;    *)
(* the effects read the committed values (their closure) and queue further *)
(* updates.  Timer callbacks, promise continuations and the hook's frame   *)
(* callback may all run between two renders.                               *)
(***************************************************************************)

PROBLEM_TIMER_SECONDS == 15
ANSWER_HOLD_SECONDS == 3

\* bound: largest finger count the hook reports in the model
MaxFingers == 2
\* bound: problems are fetched while the score is below this
MaxScore == 1
\* bound: generateMathProblem calls in flight
MaxFetch == 1

NoAnswer == -1     \* potentialAnswer / lastSubmittedAnswer === null
NoProblem == -1    \* currentProblem === null

\* bound: solutions of the generated problems
Solutions == 0..MaxFingers



StateFields == {"gameState", "currentProblem", "score", "feedback", "timeLeft", "holdTime",
                "potentialAnswer", "lastSubmittedAnswer", "detectedFingers",
                "handTrackingError", "isLoading"}

\* useState initial values (MathChallengeClient) and (useHandTracking)
InitialState ==
  [gameState |-> "IDLE", currentProblem |-> NoProblem, score |-> 0, feedback |-> "none",
   timeLeft |-> PROBLEM_TIMER_SECONDS, holdTime |-> ANSWER_HOLD_SECONDS,
   potentialAnswer |-> NoAnswer, lastSubmittedAnswer |-> NoAnswer,
   detectedFingers |-> 0, handTrackingError |-> FALSE, isLoading |-> TRUE]

Queue(s) == [f \in StateFields \cup {"psDirty", "cpDirty"} |->
               IF f \in StateFields THEN s[f] ELSE FALSE]

Committed(q) == [f \in StateFields |-> q[f]]

GameInit ==
  /\ st = InitialState
  /\ pend = Queue(InitialState)
  /\ timer = "none"
  /\ fetches = 0
  /\ holdTicks = 0
  /\ held = NoAnswer
  /\ nConfirm = 0
  /\ confirmedWith = NoAnswer
  /\ devBeforeElapse = FALSE
  /\ everConfirmed = FALSE
  /\ released = FALSE
  /\ errPhase = "none"

\* handleAnswer(answer, submitted); `score` is the value captured by the callback
handleAnswer(q, score, answer, submitted) ==
  [q EXCEPT !.gameState = "FEEDBACK",
            !.feedback = answer,
            !.lastSubmittedAnswer = submitted,
            !.score = IF answer = "correct" THEN @ + 1 ELSE @,
            !.psDirty = @ \/ (score > 0 /\ answer = "incorrect")]

\* fetchNewProblem up to its await
fetchNewProblemCall(q) == [q EXCEPT !.gameState = "LOADING_PROBLEM"]

\* handTrackingError effect: does it run its error branch on this commit
ErrorEffectFires(old, n) ==
  n.handTrackingError # old.handTrackingError /\ n.handTrackingError

ErrorEffect(old, n, q) ==
  IF ErrorEffectFires(old, n) THEN [q EXCEPT !.gameState = "IDLE"] ELSE q

\* dependency list of the timer effect: state values, currentProblem identity,
\* handleAnswer ([score]) and resetForNextQuestion ([score, pastScores]) identity
TimerDepsChanged(old, n, flags) ==
  \/ n.gameState # old.gameState
  \/ n.timeLeft # old.timeLeft
  \/ n.holdTime # old.holdTime
  \/ n.potentialAnswer # old.potentialAnswer
  \/ n.score # old.score
  \/ flags.cpDirty
  \/ flags.psDirty

\* the HOLDING && holdTime === 0 branch submits the held answer
HoldConfirms(n) ==
  /\ n.gameState = "HOLDING" /\ n.holdTime = 0
  /\ n.potentialAnswer # NoAnswer /\ n.currentProblem # NoProblem

\* body of the timer effect: the queued updates and the timer it arms
TimerEffect(n, q) ==
  IF n.gameState = "PLAYING" /\ n.timeLeft > 0
    THEN [q |-> q, timer |-> "timeLeft"]
  ELSE IF n.gameState = "PLAYING" /\ n.timeLeft = 0
    THEN [q |-> handleAnswer(q, n.score, "incorrect", NoAnswer), timer |-> "none"]
  ELSE IF n.gameState = "HOLDING" /\ n.holdTime > 0
    THEN [q |-> q, timer |-> "holdTime"]
  ELSE IF n.gameState = "HOLDING" /\ n.holdTime = 0
    THEN [q |-> IF HoldConfirms(n)
                THEN handleAnswer(q, n.score,
                       IF n.potentialAnswer = n.currentProblem THEN "correct" ELSE "incorrect",
                       n.potentialAnswer)
                ELSE q,
          timer |-> "none"]
  ELSE IF n.gameState = "FEEDBACK"
    THEN [q |-> q, timer |-> "reset"]
  ELSE [q |-> q, timer |-> "none"]

\* holdTime given to a hold that starts (mutant: the reset is forgotten)
StartHoldTimeStale(prev) == prev

StartHoldTime(prev) == ANSWER_HOLD_SECONDS

\* start-hold effect, deps [detectedFingers, gameState, currentProblem]
StartHoldFires(old, n, flags) ==
  /\ \/ n.detectedFingers # old.detectedFingers
     \/ n.gameState # old.gameState
     \/ flags.cpDirty
  /\ n.gameState = "PLAYING" /\ n.currentProblem # NoProblem
  /\ n.detectedFingers > 0

StartHoldEffect(old, n, flags, q) ==
  IF StartHoldFires(old, n, flags)
  THEN [q EXCEPT !.potentialAnswer = n.detectedFingers,
                 !.holdTime = StartHoldTime(@),
                 !.gameState = "HOLDING"]
  ELSE q

\* cancel-hold effect, deps [detectedFingers, potentialAnswer, gameState]
CancelHoldFires(old, n) ==
  /\ \/ n.detectedFingers # old.detectedFingers
     \/ n.potentialAnswer # old.potentialAnswer
     \/ n.gameState # old.gameState
  /\ n.gameState = "HOLDING"
  /\ n.detectedFingers # n.potentialAnswer

CancelHoldEffect(old, n, q) ==
  IF CancelHoldFires(old, n)
  THEN [q EXCEPT !.potentialAnswer = NoAnswer, !.gameState = "PLAYING"]
  ELSE q

RenderPending == Committed(pend) # st \/ pend.psDirty \/ pend.cpDirty

\* One render: commit, then the effects in declaration order
RenderGame ==
  LET n     == Committed(pend)
      flags == [psDirty |-> pend.psDirty, cpDirty |-> pend.cpDirty]
      q0    == Queue(n)
      q1    == ErrorEffect(st, n, q0)
      tRuns == TimerDepsChanged(st, n, flags)
      te    == IF tRuns THEN TimerEffect(n, q1) ELSE [q |-> q1, timer |-> timer]
      q3    == StartHoldEffect(st, n, flags, te.q)
      q4    == CancelHoldEffect(st, n, q3)
      confirm == tRuns /\ HoldConfirms(n)
      start   == StartHoldFires(st, n, flags)
      cw      == IF confirm THEN n.potentialAnswer ELSE confirmedWith
  IN /\ RenderPending
     /\ ~(confirm /\ n.score >= MaxScore)
     /\ st' = n
     /\ pend' = q4
     /\ timer' = te.timer
     /\ held' = IF start THEN n.detectedFingers
                ELSE IF n.gameState = "HOLDING" THEN held ELSE NoAnswer
     /\ holdTicks' = IF start \/ n.gameState # "HOLDING" THEN 0 ELSE holdTicks
     /\ devBeforeElapse' = IF start \/ n.gameState # "HOLDING" THEN FALSE ELSE devBeforeElapse
     /\ nConfirm' = IF start \/ n.gameState # "HOLDING" THEN 0
                    ELSE IF confirm /\ nConfirm < 2 THEN nConfirm + 1 ELSE nConfirm
     /\ confirmedWith' = cw
     /\ everConfirmed' = (everConfirmed \/ confirm)
     /\ released' = IF confirm THEN n.detectedFingers # cw
                    ELSE released \/ (everConfirmed /\ n.detectedFingers # cw)
     /\ errPhase' = IF ErrorEffectFires(st, n) THEN "handled"
                    ELSE IF errPhase = "handled" /\ n.gameState = "IDLE" THEN "idle"
                    ELSE errPhase

\* callbacks of the timer effect's setTimeout
timerCallback ==
  /\ timer # "none"
  /\ timer' = "none"
  /\ \/ /\ timer = "timeLeft"
        /\ pend' = [pend EXCEPT !.timeLeft = @ - 1]
        /\ UNCHANGED <<fetches, holdTicks, devBeforeElapse>>
     \/ /\ timer = "holdTime"
        /\ pend' = [pend EXCEPT !.holdTime = @ - 1]
        /\ holdTicks' = IF holdTicks <= ANSWER_HOLD_SECONDS THEN holdTicks + 1 ELSE holdTicks
        /\ devBeforeElapse' = IF holdTicks + 1 = ANSWER_HOLD_SECONDS
                              THEN pend.detectedFingers # st.potentialAnswer
                              ELSE devBeforeElapse
        /\ UNCHANGED fetches
     \/ /\ timer = "reset"          \* resetForNextQuestion
        /\ fetches < MaxFetch
        /\ pend' = fetchNewProblemCall([pend EXCEPT !.feedback = "none",
                                                    !.potentialAnswer = NoAnswer,
                                                    !.lastSubmittedAnswer = NoAnswer])
        /\ fetches' = fetches + 1
        /\ UNCHANGED <<holdTicks, devBeforeElapse>>
  /\ UNCHANGED <<st, held, nConfirm, confirmedWith, everConfirmed, released, errPhase>>

TimerFire == timerCallback /\ UNCHANGED <<airPianoVars, camVars, auxVars>>

\* generateMathProblem resolved: rest of fetchNewProblem's try block
FetchResolved(solution) ==
  /\ fetches > 0
  /\ pend.score < MaxScore
  /\ fetches' = fetches - 1
  /\ pend' = [pend EXCEPT !.currentProblem = solution, !.cpDirty = TRUE,
                          !.timeLeft = PROBLEM_TIMER_SECONDS,
                          !.gameState = "PLAYING"]
  /\ UNCHANGED <<st, timer>>
  /\ UNCHANGED holdHist
  /\ UNCHANGED <<airPianoVars, camVars, auxVars>>

\* generateMathProblem rejected: fetchNewProblem's catch block
FetchRejected ==
  /\ fetches > 0
  /\ fetches' = fetches - 1
  /\ pend' = [pend EXCEPT !.gameState = "IDLE"]
  /\ UNCHANGED <<st, timer>>
  /\ UNCHANGED holdHist
  /\ UNCHANGED <<airPianoVars, camVars, auxVars>>

\* predictWebcam publishes a finger count: setDetectedFingers(totalFingerCount)
setDetectedFingers(f) ==
  /\ pend' = [pend EXCEPT !.detectedFingers = f]
  /\ released' = (released \/ (everConfirmed /\ f # confirmedWith))
  /\ UNCHANGED <<st, timer, fetches>>
  /\ UNCHANGED <<holdTicks, held, nConfirm, confirmedWith, devBeforeElapse,
                 everConfirmed, errPhase>>

Detect(f) == setDetectedFingers(f) /\ UNCHANGED <<airPianoVars, camVars, auxVars>>

\* initialize(): the model finished loading (finally block), with or without
\* error; handLandmarkerRef.current is assigned only when createFromOptions
\* resolved
InitializeDone(ok) ==
  /\ pend.isLoading
  /\ pend' = [pend EXCEPT !.isLoading = FALSE,
                          !.handTrackingError = IF ok THEN @ ELSE TRUE]
  /\ handLandmarkerRef' = ok
  /\ UNCHANGED <<st, timer, fetches>>
  /\ UNCHANGED holdHist
  /\ UNCHANGED <<videoMounted, srcObject, live, streamCount, calls, readyPending, requestRef>>
  /\ UNCHANGED <<airPianoVars, auxVars>>

\* startGame up to `await startVideo()`.  The button exists in the IDLE render
\* only, and the updates of a click are committed before the next click is
\* dispatched (React flushes discrete-event updates synchronously)
startGameCall ==
  /\ st.gameState = "IDLE"
  /\ pend.gameState \notin {"LOADING", "LOADING_PROBLEM"}
  /\ everConfirmed' = FALSE
  /\ released' = FALSE
  /\ confirmedWith' = NoAnswer
  /\ errPhase' = "none"
  /\ UNCHANGED <<st, timer, holdTicks, held, nConfirm, devBeforeElapse>>

startGameQueue(q) == [q EXCEPT !.score = 0, !.psDirty = TRUE, !.gameState = "LOADING"]

(***************************************************************************)
(* Part III.  useHandTracking: camera session (startVideo / stopVideo)     *)
(* as driven by MathChallengeClient.  The <video> element exists only in   *)
(* renders whose gameState is not IDLE (renderGameState returns the menu   *)
(* without it), so videoRef.current follows the committed gameState.       *)
(***************************************************************************)

\* bound: getUserMedia streams granted in one run of the model
MaxStreams == 3
\* bound: startVideo calls in flight
MaxCalls == 2



CamInit ==
  /\ videoMounted = FALSE
  /\ srcObject = 0
  /\ live = {}
  /\ streamCount = 0
  /\ calls = <<>>
  /\ readyPending = FALSE
  /\ requestRef = FALSE
  /\ handLandmarkerRef = FALSE

RemoveAt(seq, i) == [j \in 1..(Len(seq) - 1) |-> IF j < i THEN seq[j] ELSE seq[j + 1]]

\* stopVideo(): cancel the scheduled frame, stop the tracks of the attached stream
stopVideoKeepsTracks(mounted, src, liveSet) == [srcObject |-> 0, live |-> liveSet]

stopVideo(mounted, src, liveSet) ==
  IF mounted /\ src # 0
  THEN [srcObject |-> 0, live |-> liveSet \ {src}]
  ELSE [srcObject |-> src, live |-> liveSet]

\* guard at the top of startVideo, with the isLoading captured by the render
startVideoReturnsEarly == st.isLoading \/ (videoMounted /\ srcObject # 0)

\* Start Game button: startGame() up to the first pending await
startGameClick ==
  /\ startGameCall
  /\ IF startVideoReturnsEarly
     THEN /\ fetches < MaxFetch
          /\ pend' = fetchNewProblemCall(startGameQueue(pend))
          /\ fetches' = fetches + 1
          /\ UNCHANGED calls
     ELSE /\ Len(calls) < MaxCalls
          /\ pend' = [startGameQueue(pend) EXCEPT !.handTrackingError = FALSE]
          /\ calls' = Append(calls, [pc |-> "waitForVideo", video |-> "none"])
          /\ UNCHANGED fetches
  /\ UNCHANGED <<videoMounted, srcObject, live, streamCount, readyPending, requestRef,
                 handLandmarkerRef>>

StartGame == startGameClick /\ UNCHANGED <<airPianoVars, auxVars>>

\* waitForVideo: checkVideo finds videoRef.current; startVideo calls getUserMedia
WaitForVideoResolved(i) ==
  /\ i \in 1..Len(calls)
  /\ calls[i].pc = "waitForVideo"
  /\ videoMounted
  /\ calls' = [calls EXCEPT ![i] = [pc |-> "getUserMedia", video |-> "mounted"]]
  /\ UNCHANGED <<videoMounted, srcObject, live, streamCount, readyPending, requestRef,
                 handLandmarkerRef>>
  /\ UNCHANGED gameVars
  /\ UNCHANGED holdHist
  /\ UNCHANGED <<airPianoVars, auxVars>>

\* getUserMedia resolved: video.srcObject = stream, listen for 'loadeddata';
\* startVideo returns and startGame goes on with fetchNewProblem()
GetUserMediaResolved(i) ==
  /\ i \in 1..Len(calls)
  /\ calls[i].pc = "getUserMedia"
  /\ streamCount < MaxStreams
  /\ fetches < MaxFetch
  /\ streamCount' = streamCount + 1
  /\ live' = live \cup {streamCount + 1}
  /\ IF calls[i].video = "mounted"
     THEN srcObject' = streamCount + 1 /\ readyPending' = TRUE
     ELSE UNCHANGED <<srcObject, readyPending>>
  /\ calls' = RemoveAt(calls, i)
  /\ pend' = fetchNewProblemCall(pend)
  /\ fetches' = fetches + 1
  /\ UNCHANGED <<videoMounted, requestRef, handLandmarkerRef, st, timer>>
  /\ UNCHANGED holdHist
  /\ UNCHANGED <<airPianoVars, auxVars>>

\* getUserMedia rejected: setError(...) and rethrow, startGame is abandoned
GetUserMediaRejected(i) ==
  /\ i \in 1..Len(calls)
  /\ calls[i].pc = "getUserMedia"
  /\ calls' = RemoveAt(calls, i)
  /\ pend' = [pend EXCEPT !.handTrackingError = TRUE]
  /\ UNCHANGED <<videoMounted, srcObject, live, streamCount, readyPending, requestRef,
                 handLandmarkerRef>>
  /\ UNCHANGED <<st, timer, fetches>>
  /\ UNCHANGED holdHist
  /\ UNCHANGED <<airPianoVars, auxVars>>

\* 'loadeddata' on the mounted element: videoReady() calls predictWebcam()
VideoReady ==
  /\ readyPending /\ videoMounted /\ srcObject # 0
  /\ readyPending' = FALSE
  /\ requestRef' = TRUE
  /\ UNCHANGED <<videoMounted, srcObject, live, streamCount, calls, handLandmarkerRef>>
  /\ UNCHANGED gameVars
  /\ UNCHANGED holdHist
  /\ UNCHANGED <<airPianoVars, auxVars>>

\* Render with its DOM commit and the stopVideo() call of the error effect
renderCommit ==
  LET n        == Committed(pend)
      mounted  == n.gameState # "IDLE"
      unmount  == videoMounted /\ ~mounted
      src1     == IF mounted /\ videoMounted THEN srcObject ELSE 0
      stopped  == stopVideo(mounted, src1, live)
      fires    == ErrorEffectFires(st, n)
  IN /\ RenderGame
     /\ UNCHANGED fetches
     /\ videoMounted' = mounted
     /\ calls' = IF unmount
                 THEN [i \in 1..Len(calls) |->
                         IF calls[i].video = "mounted"
                         THEN [calls[i] EXCEPT !.video = "detached"] ELSE calls[i]]
                 ELSE calls
     /\ srcObject' = IF fires THEN stopped.srcObject ELSE src1
     /\ live' = IF fires THEN stopped.live ELSE live
     /\ readyPending' = (readyPending /\ mounted /\ videoMounted /\ srcObject' # 0)
     /\ requestRef' = (requestRef /\ ~fires)
     /\ UNCHANGED <<streamCount, handLandmarkerRef>>

Render == renderCommit /\ UNCHANGED <<airPianoVars, auxVars>>

CamNext ==
  \/ StartGame
  \/ \E i \in 1..MaxCalls : WaitForVideoResolved(i)
  \/ \E i \in 1..MaxCalls : GetUserMediaResolved(i)
  \/ \E i \in 1..MaxCalls : GetUserMediaRejected(i)
  \/ VideoReady
  \/ Render
  \/ TimerFire
  \/ (\E s \in Solutions : FetchResolved(s))
  \/ FetchRejected
  \/ (\E ok \in BOOLEAN : InitializeDone(ok))

(***************************************************************************)
(* The hold-to-confirm specification keeps the controller of Part II and   *)
(* takes the hook as its environment: the model loads, startVideo()        *)
(* returns, and finger counts arrive at any time.  The hook's error paths  *)
(* are those of SpecCam.                                                   *)
(***************************************************************************)

\* `await startVideo()` resumed normally (the video element was found, the
\* camera granted): startGame calls fetchNewProblem()
StartVideoReturned ==
  /\ Len(calls) > 0
  /\ st.gameState # "IDLE"
  /\ fetches < MaxFetch
  /\ calls' = Tail(calls)
  /\ pend' = fetchNewProblemCall(pend)
  /\ fetches' = fetches + 1
  /\ UNCHANGED <<videoMounted, srcObject, live, streamCount, readyPending, requestRef,
                 handLandmarkerRef>>
  /\ UNCHANGED <<st, timer>>
  /\ UNCHANGED holdHist
  /\ UNCHANGED <<airPianoVars, auxVars>>

HoldRender ==
  /\ RenderGame
  /\ UNCHANGED fetches
  /\ UNCHANGED <<airPianoVars, camVars, auxVars>>

HoldNext ==
  \/ StartGame
  \/ StartVideoReturned
  \/ HoldRender
  \/ TimerFire
  \/ (\E s \in Solutions : FetchResolved(s))
  \/ FetchRejected
  \/ InitializeDone(TRUE)
  \/ (\E f \in 0..MaxFingers : Detect(f))

(***************************************************************************)
(* Part IV.  AirPianoClient controller: mode selection and the countdown   *)
(* started by startCountdown (setInterval).  The hand-tracking model is    *)
(* taken as loaded; the <video> element is always mounted in this client.  *)
(* One "second" is a window in which every pending interval fires once.    *)
(***************************************************************************)

\* setCountdown(3) in startCountdown
CountdownFrom == 3
\* bound: countdown intervals alive at the same time
MaxIntervals == 2
\* bound: selectMode calls suspended at `await startVideo()`
MaxSelect == 2

GameModes == {"EASY", "HARD"}

PianoInit ==
  /\ apGameState = [gameState |-> "IDLE", gameMode |-> Null]
  /\ countdown = CountdownFrom
  /\ intervals = {}
  /\ firedInSecond = {}
  /\ selectCalls = 0
  /\ apSrcObject = FALSE
  /\ decInSecond = 0
  /\ expiries = 0

\* startCountdown(): COUNTDOWN, countdown 3, a new setInterval; earlier
\* intervals are left running.  `mode` is the gameMode state at that point
startCountdown(mode) ==
  /\ Cardinality(intervals) < MaxIntervals
  /\ LET id == CHOOSE i \in 1..MaxIntervals :
                 i \notin intervals /\ \A j \in 1..(i - 1) : j \in intervals
     IN /\ intervals' = intervals \cup {id}
        /\ firedInSecond' = firedInSecond \cup {id}
  /\ apGameState' = [gameState |-> "COUNTDOWN", gameMode |-> mode]
  /\ countdown' = CountdownFrom
  /\ decInSecond' = 0
  /\ expiries' = 0

\* selectMode after `await startVideo()`: refs reset ("Reset for new game"),
\* then startCountdown()
selectModeContinuation(mode) ==
  /\ selectModeRefs
  /\ startCountdown(mode)

\* IDLE overlay: Start Game button, setGameState('SELECT_MODE')
PianoStartButton ==
  /\ apGameState.gameState = "IDLE"
  /\ apGameState' = [apGameState EXCEPT !.gameState = "SELECT_MODE"]
  /\ UNCHANGED <<countdown, intervals, firedInSecond, selectCalls, apSrcObject,
                 decInSecond, expiries>>
  /\ UNCHANGED <<stickyVars, gameVars, holdHist, camVars, auxVars>>

\* selectMode(mode) from the Easy/Hard buttons (SELECT_MODE overlay) or from
\* restartGame (Retry in the GAME_OVER overlay), up to `await startVideo()`.
\* With a stream attached startVideo returns at its guard and the
\* continuation runs before any other event.
PianoSelectMode(mode) ==
  /\ \/ apGameState.gameState = "SELECT_MODE"
     \/ /\ apGameState.gameState = "GAME_OVER"
        /\ apGameState.gameMode = mode
  /\ IF apSrcObject
     THEN /\ selectModeContinuation(mode)
          /\ UNCHANGED <<selectCalls, apSrcObject>>
     ELSE /\ selectCalls < MaxSelect
          /\ selectCalls' = selectCalls + 1
          /\ apGameState' = [apGameState EXCEPT !.gameMode = mode]
          /\ UNCHANGED <<countdown, intervals, firedInSecond, apSrcObject,
                         decInSecond, expiries>>
          /\ UNCHANGED stickyVars
  /\ UNCHANGED <<gameVars, holdHist, camVars, auxVars>>

\* getUserMedia resolved for a suspended selectMode call: the stream is
\* attached and selectMode continues
PianoStartVideoResolved ==
  /\ selectCalls > 0
  /\ selectCalls' = selectCalls - 1
  /\ apSrcObject' = TRUE
  /\ selectModeContinuation(apGameState.gameMode)
  /\ UNCHANGED <<gameVars, holdHist, camVars, auxVars>>

\* getUserMedia rejected: selectMode is abandoned, the hook sets its error and
\* the error effect runs stopVideo() and setGameState('IDLE')
PianoStartVideoRejected ==
  /\ selectCalls > 0
  /\ selectCalls' = selectCalls - 1
  /\ apSrcObject' = FALSE
  /\ apGameState' = [apGameState EXCEPT !.gameState = "IDLE"]
  /\ UNCHANGED <<countdown, intervals, firedInSecond, decInSecond, expiries>>
  /\ UNCHANGED <<stickyVars, gameVars, holdHist, camVars, auxVars>>

\* callback of countdownInterval i: the setCountdown updater
PianoIntervalFire(i) ==
  /\ i \in intervals /\ i \notin firedInSecond
  /\ IF countdown <= 1
     THEN /\ intervals' = intervals \ {i}
          /\ firedInSecond' = firedInSecond \ {i}
          /\ apGameState' = [apGameState EXCEPT !.gameState = "PLAYING"]
          /\ countdown' = 0
          /\ expiries' = IF expiries < 2 THEN expiries + 1 ELSE expiries
     ELSE /\ countdown' = countdown - 1
          /\ firedInSecond' = firedInSecond \cup {i}
          /\ UNCHANGED <<intervals, apGameState, expiries>>
  /\ decInSecond' = decInSecond + (countdown - countdown')
  /\ UNCHANGED <<selectCalls, apSrcObject>>
  /\ UNCHANGED <<stickyVars, gameVars, holdHist, camVars, auxVars>>

\* the next one-second window begins once every pending interval has fired
PianoSecond ==
  /\ intervals \subseteq firedInSecond
  /\ firedInSecond # {} \/ decInSecond # 0
  /\ firedInSecond' = {}
  /\ decInSecond' = 0
  /\ UNCHANGED <<apGameState, countdown, intervals, selectCalls, apSrcObject, expiries>>
  /\ UNCHANGED <<stickyVars, gameVars, holdHist, camVars, auxVars>>

\* gameLoop: third consecutive mistake while PLAYING with a game mode
PianoGameOver ==
  /\ apGameState.gameState = "PLAYING"
  /\ apGameState.gameMode # Null
  /\ apGameState' = [apGameState EXCEPT !.gameState = "GAME_OVER"]
  /\ UNCHANGED <<countdown, intervals, firedInSecond, selectCalls, apSrcObject,
                 decInSecond, expiries>>
  /\ UNCHANGED <<stickyVars, gameVars, holdHist, camVars, auxVars>>

\* exitGame (Exit in the GAME_OVER overlay)
PianoExitGame ==
  /\ apGameState.gameState = "GAME_OVER"
  /\ apSrcObject' = FALSE
  /\ apGameState' = [gameState |-> "IDLE", gameMode |-> Null]
  /\ exitGameRefs
  /\ UNCHANGED <<countdown, intervals, firedInSecond, selectCalls, decInSecond, expiries>>
  /\ UNCHANGED <<gameVars, holdHist, camVars, auxVars>>

PianoNext ==
  \/ PianoStartButton
  \/ (\E mode \in GameModes : PianoSelectMode(mode))
  \/ PianoStartVideoResolved
  \/ PianoStartVideoRejected
  \/ (\E i \in 1..MaxIntervals : PianoIntervalFire(i))
  \/ PianoSecond
  \/ PianoGameOver
  \/ PianoExitGame

(***************************************************************************)
(* Part V.  The gesture classifiers: countFingers (lib/finger-counting.ts) *)
(* and isPointing / isPinching (SketchAndScoreClient).  A hand is the      *)
(* sequence of its landmarks; JavaScript index k is TLA+ index k + 1.      *)
(* Coordinates are integers on a grid of unit 0.01, so "distance < 0.05"   *)
(* is "squared grid distance < 5 * 5".                                     *)
(***************************************************************************)
THUMB_MCP == 2
THUMB_IP == 3
THUMB_TIP == 4
INDEX_FINGER_MCP == 5
INDEX_FINGER_PIP == 6
INDEX_FINGER_TIP == 8
MIDDLE_FINGER_PIP == 10
MIDDLE_FINGER_TIP == 12
RING_FINGER_PIP == 14
RING_FINGER_TIP == 16
PINKY_PIP == 18
PINKY_TIP == 20
NumLandmarks == 21
PinchThreshold == 5
MaxCoord == 2
Threw == -1

Coords == 0..MaxCoord
CountLabels == {"Left", "Right", "Unknown"}
\* landmark counts of the hands presented: none, cut before the index tip,
\* one short, complete
HandLengths == {0, INDEX_FINGER_TIP, PINKY_TIP, NumLandmarks}

\* A complete hand: the four finger tips at heights tipY, the thumb tip at
\* thumbTip, the index tip at x = indexTipX, the thumb base at x = thumbMcpX,
\* every other joint at the reference coordinate 1.
Landmark(x, y, z) == [x |-> x, y |-> y, z |-> z]
fullHand(tipY, thumbTip, indexTipX, thumbMcpX) ==
  [k \in 1..NumLandmarks |->
     CASE k - 1 = THUMB_TIP -> thumbTip
       [] k - 1 = THUMB_MCP -> Landmark(thumbMcpX, 1, 0)
       [] k - 1 = INDEX_FINGER_TIP -> Landmark(indexTipX, tipY[1], 0)
       [] k - 1 = MIDDLE_FINGER_TIP -> Landmark(1, tipY[2], 0)
       [] k - 1 = RING_FINGER_TIP -> Landmark(1, tipY[3], 0)
       [] k - 1 = PINKY_TIP -> Landmark(1, tipY[4], 0)
       [] OTHER -> Landmark(1, 1, 0)]
truncated(hand, n) == SubSeq(hand, 1, n)

\* handLandmarks[k] is undefined, and reading a field of it throws
defined(hand, k) == k + 1 <= Len(hand)
at(hand, k) == hand[k + 1]

\* a finger is raised when its tip is above its PIP joint (smaller y);
\* mutant: the comparison is turned round
isRaisedBelow(hand, tip, pip) == at(hand, tip).y > at(hand, pip).y
isRaised(hand, tip, pip) == at(hand, tip).y < at(hand, pip).y

\* the thumb branch of countFingers (mutant: a hand without label gets the
\* thumb counted whenever the tip is off its joint)
thumbRaisedDefault(hand, label) ==
  IF label = "Right" THEN at(hand, THUMB_TIP).x < at(hand, THUMB_IP).x
  ELSE IF label = "Left" THEN at(hand, THUMB_TIP).x > at(hand, THUMB_IP).x
  ELSE at(hand, THUMB_TIP).x # at(hand, THUMB_IP).x

thumbRaised(hand, label) ==
  IF label = "Right" THEN at(hand, THUMB_TIP).x < at(hand, THUMB_IP).x
  ELSE IF label = "Left" THEN at(hand, THUMB_TIP).x > at(hand, THUMB_IP).x
  ELSE IF at(hand, THUMB_MCP).x < at(hand, INDEX_FINGER_MCP).x
       THEN at(hand, THUMB_TIP).x > at(hand, THUMB_IP).x
       ELSE at(hand, THUMB_TIP).x < at(hand, THUMB_IP).x

Bit(b) == IF b THEN 1 ELSE 0

\* one iteration of the loop of countFingers: raisedFingers of one hand, or
\* Threw when a landmark it reads is missing
raisedFingersThumbTwice(hand, label) ==
  IF ~defined(hand, PINKY_TIP) THEN Threw
  ELSE Bit(isRaised(hand, INDEX_FINGER_TIP, INDEX_FINGER_PIP))
     + Bit(isRaised(hand, MIDDLE_FINGER_TIP, MIDDLE_FINGER_PIP))
     + Bit(isRaised(hand, RING_FINGER_TIP, RING_FINGER_PIP))
     + Bit(isRaised(hand, PINKY_TIP, PINKY_PIP))
     + Bit(thumbRaised(hand, label))
     + Bit(thumbRaised(hand, "Unknown"))
raisedFingers(hand, label) ==
  IF ~defined(hand, PINKY_TIP) THEN Threw
  ELSE Bit(isRaised(hand, INDEX_FINGER_TIP, INDEX_FINGER_PIP))
     + Bit(isRaised(hand, MIDDLE_FINGER_TIP, MIDDLE_FINGER_PIP))
     + Bit(isRaised(hand, RING_FINGER_TIP, RING_FINGER_PIP))
     + Bit(isRaised(hand, PINKY_TIP, PINKY_PIP))
     + Bit(thumbRaised(hand, label))

\* countFingers on a whole frame
RECURSIVE countFrom(_, _, _, _)
countFrom(lms, hd, i, totalFingers) ==
  IF i > Len(lms) THEN totalFingers
  ELSE LET r == raisedFingers(lms[i], hd[i])
       IN IF r = Threw THEN Threw
          ELSE countFrom(lms, hd, i + 1, totalFingers + r)
countFingers(lms, hd) == countFrom(lms, hd, 1, 0)

isPointing(hand) ==
  IF Len(hand) < NumLandmarks THEN FALSE
  ELSE /\ at(hand, INDEX_FINGER_TIP).y < at(hand, INDEX_FINGER_PIP).y
       /\ at(hand, MIDDLE_FINGER_TIP).y > at(hand, MIDDLE_FINGER_PIP).y
       /\ at(hand, RING_FINGER_TIP).y > at(hand, RING_FINGER_PIP).y
       /\ at(hand, PINKY_TIP).y > at(hand, PINKY_PIP).y

sq(a) == a * a
\* (mutant: the threshold itself counts as a pinch)
isPinchingInclusive(hand) ==
  IF Len(hand) < NumLandmarks THEN FALSE
  ELSE sq(at(hand, THUMB_TIP).x - at(hand, INDEX_FINGER_TIP).x)
     + sq(at(hand, THUMB_TIP).y - at(hand, INDEX_FINGER_TIP).y)
     + sq(at(hand, THUMB_TIP).z - at(hand, INDEX_FINGER_TIP).z) <= sq(PinchThreshold)

isPinching(hand) ==
  IF Len(hand) < NumLandmarks THEN FALSE
  ELSE sq(at(hand, THUMB_TIP).x - at(hand, INDEX_FINGER_TIP).x)
     + sq(at(hand, THUMB_TIP).y - at(hand, INDEX_FINGER_TIP).y)
     + sq(at(hand, THUMB_TIP).z - at(hand, INDEX_FINGER_TIP).z) < sq(PinchThreshold)

\* countFingers, first variant of the file: the thumb is compared with the
\* base of the index finger and is never counted without a label
thumbRaisedFirst(hand, label) ==
  IF label = "Right" THEN at(hand, THUMB_TIP).x < at(hand, INDEX_FINGER_MCP).x
  ELSE IF label = "Left" THEN at(hand, THUMB_TIP).x > at(hand, INDEX_FINGER_MCP).x
  ELSE FALSE

\* what the frame shows, recorded next to what the classifiers answer
sign(a) == IF a < 0 THEN -1 ELSE IF a > 0 THEN 1 ELSE 0
NoThumb == [label |-> "Right", tip |-> 0, base |-> FALSE, first |-> FALSE]
thumbFacts(hand, label) ==
  [label |-> label,
   tip   |-> sign(at(hand, THUMB_TIP).x - at(hand, THUMB_IP).x),
   base  |-> at(hand, THUMB_MCP).x < at(hand, INDEX_FINGER_MCP).x,
   first |-> thumbRaisedFirst(hand, label)]
fourFingers(hand) ==
  Bit(isRaised(hand, INDEX_FINGER_TIP, INDEX_FINGER_PIP))
  + Bit(isRaised(hand, MIDDLE_FINGER_TIP, MIDDLE_FINGER_PIP))
  + Bit(isRaised(hand, RING_FINGER_TIP, RING_FINGER_PIP))
  + Bit(isRaised(hand, PINKY_TIP, PINKY_PIP))
NoneExtended == <<FALSE, FALSE, FALSE, FALSE>>
extended(hand) ==
  <<isRaised(hand, INDEX_FINGER_TIP, INDEX_FINGER_PIP),
    isRaised(hand, MIDDLE_FINGER_TIP, MIDDLE_FINGER_PIP),
    isRaised(hand, RING_FINGER_TIP, RING_FINGER_PIP),
    isRaised(hand, PINKY_TIP, PINKY_PIP)>>
distance2(hand) ==
  sq(at(hand, THUMB_TIP).x - at(hand, INDEX_FINGER_TIP).x)
  + sq(at(hand, THUMB_TIP).y - at(hand, INDEX_FINGER_TIP).y)
  + sq(at(hand, THUMB_TIP).z - at(hand, INDEX_FINGER_TIP).z)

NoGesture == [pointing |-> FALSE, pinching |-> FALSE]
NoDistance == -1    \* no complete hand has been classified

ClassInit ==
  /\ cPc = "idle"
  /\ cLen = 0
  /\ cI = 0
  /\ cHandLen = NumLandmarks
  /\ cRaised = 0
  /\ cTotal = 0
  /\ gResult = NoGesture
  /\ gExt = NoneExtended
  /\ gD2 = NoDistance
  /\ cThumb = NoThumb
  /\ cFour = 0

classOthers == <<stickyVars, pianoVars, gameVars, holdHist, camVars, scenVars, sketchVars, smoothVars,
                 bubbleVars, roundVars, staleVars, raceVars, ballVars, pongVars, paddleVars, drawVars, keysVars>>

\* predictWebcam calls countFingers on a frame of n hands
CountStart(n) ==
  /\ cPc # "loop"
  /\ cLen' = n
  /\ cI' = 0
  /\ cTotal' = 0
  /\ cRaised' = 0
  /\ cPc' = IF n = 0 THEN "returned" ELSE "loop"
  /\ cThumb' = NoThumb
  /\ cFour' = 0
  /\ gResult' = NoGesture      \* the locals of the previous effect run are gone
  /\ gExt' = NoneExtended
  /\ gD2' = NoDistance
  /\ UNCHANGED <<cHandLen, classOthers>>

\* the body of the loop for hand i
CountIter(hand, label) ==
  /\ cPc = "loop"
  /\ cHandLen' = Len(hand)
  /\ LET r == raisedFingers(hand, label)
     IN IF r = Threw
        THEN /\ cPc' = "threw"
             /\ UNCHANGED <<cI, cRaised, cTotal, cThumb, cFour>>
        ELSE /\ cRaised' = r
             /\ cThumb' = thumbFacts(hand, label)
             /\ cFour' = fourFingers(hand)
             /\ cTotal' = cTotal + r
             /\ cI' = cI + 1
             /\ cPc' = IF cI + 1 < cLen THEN "loop" ELSE "returned"
  /\ UNCHANGED <<cLen, gResult, gExt, gD2, classOthers>>

\* the gesture effect of Sketch & Score classifies one hand
Gesture(hand) ==
  /\ cPc = "idle"
  /\ cHandLen' = Len(hand)
  /\ gResult' = [pointing |-> isPointing(hand), pinching |-> isPinching(hand)]
  /\ gExt' = IF Len(hand) < NumLandmarks THEN NoneExtended ELSE extended(hand)
  /\ gD2' = IF Len(hand) < NumLandmarks THEN NoDistance ELSE distance2(hand)
  /\ UNCHANGED <<cPc, cLen, cI, cRaised, cTotal, cThumb, cFour, classOthers>>

\* offsets of the thumb tip from the index tip along x, in grid units
PinchOffsets == {0, 2, 3, 4, 5, 6, 12}
\* a hand cut down to n landmarks; which landmarks it had does not matter
shortHand(n) == truncated(fullHand(<<1, 1, 1, 1>>, Landmark(1, 1, 0), 1, 1), n)

ClassNext ==
  \/ (\E n \in 0..NumHands : CountStart(n))
  \/ (\E tipY \in [1..4 -> Coords], tx \in Coords, mx \in Coords, label \in CountLabels :
        CountIter(fullHand(tipY, Landmark(tx, 1, 0), 1, mx), label))
  \/ (\E n \in HandLengths \ {NumLandmarks}, label \in CountLabels :
        CountIter(shortHand(n), label))
  \/ (\E tipY \in [1..4 -> Coords], d \in PinchOffsets, ty \in Coords :
        Gesture(fullHand(tipY, Landmark(1 + d, ty, 0), 1, 1)))
  \/ (\E n \in HandLengths \ {NumLandmarks} : Gesture(shortHand(n)))

(***************************************************************************)
(* Part VI.  A Math Challenge question evaluated once per second: in each  *)
(* tick the timeout armed in the previous tick expires, then predictWebcam *)
(* evaluates one frame, and React renders after either event until nothing *)
(* is queued.  The hands shown are built landmark by landmark and counted  *)
(* by countFingers.                                                        *)
(***************************************************************************)
\* bound: ticks of one run
MaxTicks == 5

\* a Right hand holding up j fingers (index, middle, ring, pinky, thumb);
\* heights 0, 1, 2 stand for a raised tip, the PIP joint and a curled tip
showHand(j) ==
  fullHand([f \in 1..4 |-> IF f <= j THEN 0 ELSE 2],
           Landmark(IF j >= 5 THEN 0 ELSE 1, 1, 0), 1, 1)
frameShowing(k) ==
  IF k <= 5 THEN <<showHand(k)>> ELSE <<showHand(5), showHand(k - 5)>>
labelsShowing(k) == [i \in 1..Len(frameShowing(k)) |-> "Right"]

ScenInit ==
  /\ tick = 0
  /\ phase = "settle"
  /\ shown = <<>>
  /\ confirmedAt = 0

scenOthers == <<airPianoVars, camVars, classVars, sketchVars, smoothVars, bubbleVars, roundVars, staleVars, raceVars, ballVars, pongVars, paddleVars, drawVars, keysVars>>

\* the next second begins; the first one begins when the question is displayed
ScenTick ==
  /\ tick < MaxTicks
  /\ phase = "settle"
  /\ ~RenderPending
  /\ st.gameState # "IDLE"
  /\ tick = 0 => (st.gameState = "PLAYING" /\ timer = "timeLeft")
  /\ tick' = tick + 1
  /\ phase' = "timer"
  /\ UNCHANGED <<shown, confirmedAt, gameVars, holdHist, scenOthers>>

\* the timeout armed during the previous tick expires
ScenTimer ==
  /\ phase = "timer"
  /\ ~RenderPending
  /\ IF timer # "none" THEN timerCallback ELSE UNCHANGED <<gameVars, holdHist>>
  /\ phase' = "sample"
  /\ UNCHANGED <<tick, shown, confirmedAt, scenOthers>>

\* predictWebcam evaluates the frame of this tick: k fingers are shown
ScenSample(k) ==
  /\ phase = "sample"
  /\ ~RenderPending
  /\ setDetectedFingers(countFingers(frameShowing(k), labelsShowing(k)))
  /\ shown' = Append(shown, k)
  /\ phase' = "settle"
  /\ UNCHANGED <<tick, confirmedAt, scenOthers>>

ScenRender ==
  /\ tick > 0
  /\ RenderGame
  /\ confirmedAt' = IF ~everConfirmed /\ everConfirmed' THEN tick ELSE confirmedAt
  /\ UNCHANGED <<fetches, tick, phase, shown, scenOthers>>

ScenNext ==
  \/ (tick = 0 /\ StartGame)
  \/ (tick = 0 /\ StartVideoReturned)
  \/ (tick = 0 /\ HoldRender)
  \/ (tick = 0 /\ InitializeDone(TRUE))
  \/ (tick = 0 /\ \E s \in Solutions : FetchResolved(s))
  \/ ScenTick
  \/ ScenTimer
  \/ (\E k \in 0..MaxFingers : ScenSample(k))
  \/ ScenRender

(***************************************************************************)
(* Part VII.  SketchAndScoreClient: the gesture effect assigns the hands   *)
(* of the published frame to the drawing and the gesture role.  A hand is  *)
(* identified by its array index.                                          *)
(***************************************************************************)
NoRoles == [drawing |-> 0, gesture |-> 0]

\* body of the for loop for hand i (mutant: any hand may take the gesture role)
roleStepAnyGesture(roles, label, i, drawingHand) ==
  [drawing |-> IF label = drawingHand THEN i ELSE roles.drawing, gesture |-> i]

roleStep(roles, label, i, drawingHand) ==
  LET gestureHandChoice == IF drawingHand = "Left" THEN "Right" ELSE "Left"
  IN IF label = drawingHand THEN [roles EXCEPT !.drawing = i]
     ELSE IF label = gestureHandChoice THEN [roles EXCEPT !.gesture = i]
     ELSE roles

RECURSIVE roleLoop(_, _, _, _)
roleLoop(hd, drawingHand, i, roles) ==
  IF i > Len(hd) THEN roles
  ELSE roleLoop(hd, drawingHand, i + 1, roleStep(roles, hd[i], i, drawingHand))

assignRoles(hd, drawingHand) ==
  IF drawingHand # Null THEN roleLoop(hd, drawingHand, 1, NoRoles) ELSE NoRoles

GestureStates == {"GET_READY", "COUNTDOWN", "DRAWING"}

COUNTDOWN_SECONDS == 3
\* bound: generateShapeToDraw calls in flight
MaxShapeFetch == 2

SketchInit ==
  /\ skGameState = "IDLE"
  /\ skDrawingHand = Null
  /\ skRoles = NoRoles
  /\ skAux = [countdown |-> COUNTDOWN_SECONDS, feedback |-> FALSE, model |-> "loading",
              ten |-> FALSE, video |-> FALSE, fetch |-> 0, eval |-> 0, decs |-> 0]

sketchHook == <<trackedHandRef, handLandmarks, sOp, absentRun, lostRun, runLabel,
                runBroken, unboundBefore>>
sketchOthers == <<sketchHook, pianoVars, gameVars, holdHist, camVars, classVars, scenVars, smoothVars,
                  bubbleVars, roundVars, staleVars, raceVars, ballVars, pongVars, paddleVars, drawVars, keysVars>>

\* the roles the gesture effect leaves when it runs again, on the frame the
\* hook holds, because gameState or drawingHand changed
effectRoles(gameState, drawingHand) ==
  IF Len(landmarks) = 0 \/ skAux.model = "loading" \/ gameState \notin GestureStates
     \/ skAux.ten
  THEN NoRoles
  ELSE assignRoles(handedness, drawingHand)

\* setGameState(gameState) by a handler or a continuation, and the effect run after it
setSketchState(gameState) ==
  /\ skGameState' = gameState
  /\ skRoles' = effectRoles(gameState, skDrawingHand)
  /\ UNCHANGED <<skDrawingHand, landmarks, handedness, sketchOthers>>

\* startGame(hand) up to the first await that suspends: startVideo returns at
\* once while the model is loading, and fetchNewShape is called
SketchStartGame(hand) ==
  /\ skGameState = "IDLE"
  /\ ~skAux.video /\ skAux.fetch < MaxShapeFetch
  /\ skDrawingHand' = hand
  /\ skGameState' = "LOADING_CAMERA"
  /\ skRoles' = effectRoles("LOADING_CAMERA", hand)
  /\ skAux' = IF skAux.model = "loading"
              THEN [skAux EXCEPT !.fetch = @ + 1]
              ELSE [skAux EXCEPT !.video = TRUE]
  /\ UNCHANGED <<landmarks, handedness, sketchOthers>>

\* startVideo resolved: fetchNewShape is called
SketchVideoStarted ==
  /\ skAux.video /\ skAux.fetch < MaxShapeFetch
  /\ skAux' = [skAux EXCEPT !.video = FALSE, !.fetch = @ + 1]
  /\ UNCHANGED <<skGameState, skDrawingHand, skRoles, landmarks, handedness, sketchOthers>>

\* generateShapeToDraw resolved
SketchShapeFetched ==
  /\ skAux.fetch > 0
  /\ skAux' = [skAux EXCEPT !.fetch = @ - 1]
  /\ setSketchState("GET_READY")

\* startVideo rejected (catch of startGame, and the error effect) or
\* generateShapeToDraw rejected (catch of fetchNewShape)
SketchStartFailed ==
  /\ \/ skAux.video /\ skAux.model # "loading" /\ skAux' = [skAux EXCEPT !.video = FALSE]
     \/ skAux.fetch > 0 /\ skAux' = [skAux EXCEPT !.fetch = @ - 1]
  /\ setSketchState("IDLE")

\* initialize() of the hook finished; on failure the error effect runs
SketchInitializeDone(ok) ==
  /\ skAux.model = "loading"
  /\ skAux' = [skAux EXCEPT !.model = IF ok THEN "ready" ELSE "failed"]
  /\ skGameState' = IF ok THEN skGameState ELSE "IDLE"
  /\ skRoles' = NoRoles
  /\ UNCHANGED <<skDrawingHand, landmarks, handedness, sketchOthers>>

\* GET_READY: "Tap to Start" on a mobile, or the gesture effect running again
\* while ten fingers are shown
SketchStartCountdown ==
  /\ skGameState = "GET_READY"
  /\ skAux' = [skAux EXCEPT !.countdown = COUNTDOWN_SECONDS, !.decs = 0]
  /\ setSketchState("COUNTDOWN")

\* countdown effect: the 1 s timeout fired
SketchCountdownTick ==
  /\ skGameState = "COUNTDOWN" /\ skAux.countdown > 0
  /\ skAux' = [skAux EXCEPT !.countdown = @ - 1, !.decs = @ + 1]
  /\ UNCHANGED <<skGameState, skDrawingHand, skRoles, landmarks, handedness, sketchOthers>>

\* countdown effect: the countdown reached 0
SketchCountdownDone ==
  /\ skGameState = "COUNTDOWN" /\ skAux.countdown = 0
  /\ UNCHANGED skAux
  /\ setSketchState("DRAWING")

\* handleSubmit up to `await evaluatePlayerDrawing`
SketchSubmit ==
  /\ skGameState = "DRAWING" /\ skAux.eval = 0
  /\ skAux' = [skAux EXCEPT !.eval = 1]
  /\ setSketchState("SUBMITTING")

\* evaluatePlayerDrawing resolved, or rejected (catch of handleSubmit)
SketchEvaluated(ok) ==
  /\ skAux.eval > 0
  /\ skAux' = [skAux EXCEPT !.eval = 0, !.feedback = IF ok THEN TRUE ELSE @]
  /\ setSketchState(IF ok THEN "FEEDBACK" ELSE "DRAWING")

\* handleNextQuestion; the button is rendered in FEEDBACK while feedback is set
SketchNextQuestion ==
  /\ skGameState = "FEEDBACK" /\ skAux.feedback /\ skAux.fetch < MaxShapeFetch
  /\ skAux' = [skAux EXCEPT !.feedback = FALSE, !.fetch = @ + 1]
  /\ UNCHANGED <<skGameState, skDrawingHand, skRoles, landmarks, handedness, sketchOthers>>

\* The hook publishes frame f and the gesture effect runs on it; `ten` says
\* that detectedFingers === 10 on a desktop, which ends the effect before
\* the roles are assigned.
SketchGestureEffect(f, ten) ==
  /\ skAux.model = "ready"
  /\ ten => Len(f) = NumHands
  /\ landmarks' = FrameLandmarks(f)
  /\ handedness' = FrameHandedness(f)
  /\ IF Len(f) = 0 \/ skGameState \notin GestureStates
     THEN /\ skRoles' = NoRoles
          /\ skAux' = [skAux EXCEPT !.ten = ten]
          /\ UNCHANGED skGameState
     ELSE IF ten
     THEN /\ skRoles' = NoRoles
          /\ skGameState' = IF skGameState = "GET_READY" THEN "COUNTDOWN" ELSE skGameState
          /\ skAux' = IF skGameState = "GET_READY"
                      THEN [skAux EXCEPT !.ten = ten, !.countdown = COUNTDOWN_SECONDS, !.decs = 0]
                      ELSE [skAux EXCEPT !.ten = ten]
     ELSE /\ skRoles' = assignRoles(FrameHandedness(f), skDrawingHand)
          /\ skAux' = [skAux EXCEPT !.ten = ten]
          /\ UNCHANGED skGameState
  /\ UNCHANGED <<skDrawingHand, sketchOthers>>

SketchNext ==
  \/ (\E hand \in Labels : SketchStartGame(hand))
  \/ SketchVideoStarted
  \/ SketchShapeFetched
  \/ SketchStartFailed
  \/ (\E ok \in BOOLEAN : SketchInitializeDone(ok))
  \/ SketchStartCountdown
  \/ SketchCountdownTick
  \/ SketchCountdownDone
  \/ SketchSubmit
  \/ (\E ok \in BOOLEAN : SketchEvaluated(ok))
  \/ SketchNextQuestion
  \/ (\E f \in Frames, ten \in BOOLEAN : SketchGestureEffect(f, ten))

(***************************************************************************)
(* Part VIII.  AirPianoClient: "Update finger positions with smoothing".   *)
(* JavaScript numbers are rounded after every operation; the model keeps   *)
(* numbers to one unit (a pixel) and rounds every product to the nearest   *)
(* unit, ties to even, as IEEE 754 does at its own precision.              *)
(***************************************************************************)
LANE_COUNT == 4
GAME_HEIGHT == 500
LANE_WIDTH == 100
\* SMOOTHING_FACTOR = 0.3, in tenths
SMOOTHING_FACTOR == 3
\* bound: gameLoop runs of one behaviour
MaxSmoothTicks == 3
NoRaw == -1

\* n / d rounded to the nearest integer, ties to even
roundNearest(n, d) ==
  LET q == n \div d
      r == n % d
  IN IF 2 * r < d THEN q
     ELSE IF 2 * r > d THEN q + 1
     ELSE IF q % 2 = 0 THEN q ELSE q + 1

\* lerp(start, end, amt) = (1 - amt) * start + amt * end, amt in tenths
lerp(start, end, amt) ==
  roundNearest((10 - amt) * start, 10) + roundNearest(amt * end, 10)

Hole == [set |-> FALSE, x |-> 0, y |-> 0]
fingerTip(i) ==
  CASE i = 1 -> INDEX_FINGER_TIP [] i = 2 -> MIDDLE_FINGER_TIP
    [] i = 3 -> RING_FINGER_TIP [] OTHER -> PINKY_TIP

\* finger.y * canvasHeight; landmark coordinates are in hundredths
newY(hand, i) == (at(hand, fingerTip(i)).y * GAME_HEIGHT) \div 100
rawOf(hand, present, i) ==
  IF present /\ defined(hand, fingerTip(i)) THEN newY(hand, i) ELSE NoRaw

\* body of the for loop for lane i (mutant: every lane smooths from lane 0's point)
smoothLaneShared(prev, hand, i) ==
  IF ~defined(hand, fingerTip(i)) THEN prev[i]
  ELSE LET newX == (i - 1) * LANE_WIDTH + LANE_WIDTH \div 2
       IN IF ~prev[i].set
          THEN [set |-> TRUE, x |-> newX, y |-> newY(hand, i)]
          ELSE [set |-> TRUE, x |-> newX,
                y |-> lerp(prev[1].y, newY(hand, i), SMOOTHING_FACTOR)]

smoothLane(prev, hand, i) ==
  IF ~defined(hand, fingerTip(i)) THEN prev[i]
  ELSE LET newX == (i - 1) * LANE_WIDTH + LANE_WIDTH \div 2
       IN IF ~prev[i].set
          THEN [set |-> TRUE, x |-> newX, y |-> newY(hand, i)]
          ELSE [set |-> TRUE, x |-> newX,
                y |-> lerp(prev[i].y, newY(hand, i), SMOOTHING_FACTOR)]

SmoothInit ==
  /\ smoothed = [i \in 1..LANE_COUNT |-> Hole]
  /\ smRaw = [i \in 1..LANE_COUNT |-> NoRaw]
  /\ smTicks = 0

smoothOthers == <<stickyVars, pianoVars, gameVars, holdHist, camVars, classVars,
                  scenVars, sketchVars, bubbleVars, roundVars, staleVars, raceVars, ballVars, pongVars, paddleVars, drawVars, keysVars>>

\* one gameLoop run; `present` is `if (handLandmarks)`
SmoothStep(hand, present) ==
  /\ smTicks < MaxSmoothTicks
  /\ smTicks' = smTicks + 1
  /\ smoothed' = IF present
                 THEN [i \in 1..LANE_COUNT |-> smoothLane(smoothed, hand, i)]
                 ELSE smoothed
  /\ smRaw' = [i \in 1..LANE_COUNT |-> rawOf(hand, present, i)]
  /\ UNCHANGED smoothOthers

\* selectMode: smoothedFingersRef.current = []
SmoothReset ==
  /\ smoothed' = [i \in 1..LANE_COUNT |-> Hole]
  /\ smRaw' = [i \in 1..LANE_COUNT |-> NoRaw]
  /\ UNCHANGED <<smTicks, smoothOthers>>

\* heights of the finger tips in the frames presented, in hundredths
SmoothHeights == {1, 2}

SmoothNext ==
  \/ (\E tipY \in [1..4 -> SmoothHeights] :
        SmoothStep(fullHand(tipY, Landmark(1, 1, 0), 1, 1), TRUE))
  \/ (\E n \in HandLengths \ {NumLandmarks} : SmoothStep(shortHand(n), TRUE))
  \/ SmoothStep(<<>>, FALSE)
  \/ SmoothReset

(***************************************************************************)
(* Part IX.  MathChallenge2Client: bubbles, timer effect and bubble        *)
(* popping effect.  The hook is the environment: the model is loaded,      *)
(* startVideo() returns, and `landmarks` arrives at any time.  Lengths are *)
(* in units of 10 px; the client is not a mobile (radius 60 px); the       *)
(* fingertip is taken at the height of the bubble row, so the distance to  *)
(* a bubble is the horizontal one.  Options are pairwise different, so the *)
(* correct answer is the value of one bubble.                              *)
(***************************************************************************)

TIMER_SECONDS_2 == 20
BubbleRadius == 6
\* canvas.width: the width of the video the camera delivers (640 or 1280 px)
CanvasWidths == {64, 128}
\* problem.options.length (4 to 6 by the schema of the flow)
OptionCounts == 4..6
\* bound: x of the projected index fingertip, NoTip when no hand is seen
TipXs == {16, 24}
NoTip == -1
\* bound: problems are fetched while the score is below this
MaxScore2 == 1
\* bound: cap of the history counters
MaxCalls2 == 3

BubbleFields == {"gameState", "problem", "nOpt", "bubbles", "score", "feedback",
                 "lastAnswer", "timeLeft", "tip", "width"}

\* useState initial values; problem 0 is currentProblem === null, otherwise
\* the index of the option that is the correct answer
InitialState2 ==
  [gameState |-> "IDLE", problem |-> 0, nOpt |-> 0, bubbles |-> <<>>, score |-> 0,
   feedback |-> "none", lastAnswer |-> 0, timeLeft |-> TIMER_SECONDS_2, tip |-> NoTip,
   width |-> 64]

Queue2(s) == [f \in BubbleFields \cup {"lmDirty", "bubDirty", "cpDirty"} |->
                IF f \in BubbleFields THEN s[f] ELSE FALSE]

Committed2(q) == [f \in BubbleFields |-> q[f]]

BubbleInit ==
  /\ m2 = InitialState2
  /\ m2p = Queue2(InitialState2)
  /\ m2timer = "none"
  /\ m2fetch = 0
  /\ m2h = [calls |-> 0, answers |-> 0, gain |-> 0]

bubbleOthers == <<stickyVars, pianoVars, gameVars, holdHist, camVars, classVars, scenVars,
                  sketchVars, smoothVars, roundVars, staleVars, raceVars, ballVars, pongVars, paddleVars, drawVars, keysVars>>

\* createBubbles: one unpopped bubble per option
createBubbles(n) == [i \in 1..n |-> FALSE]

\* distance < bubble.radius for bubble `index` at x = canvas.width / (numOptions + 1) * index,
\* both sides multiplied by numOptions + 1
inside(tip, index, numOptions, width) ==
  LET d == tip * (numOptions + 1) - width * index
  IN (IF d < 0 THEN -d ELSE d) < BubbleRadius * (numOptions + 1)

\* the bubbles the forEach of the popping effect pops: every unpopped bubble
\* the fingertip is inside
poppedBy(n) ==
  {i \in 1..Len(n.bubbles) : ~n.bubbles[i] /\ inside(n.tip, i, n.nOpt, n.width)}

\* handleAnswer(answer, submitted)
handleAnswer2(q, answer, submitted) ==
  [q EXCEPT !.gameState = "FEEDBACK",
            !.feedback = answer,
            !.lastAnswer = submitted,
            !.score = IF answer = "correct" THEN @ + 1 ELSE @]

\* effect of [gameState, currentProblem, createBubbles]
CreateEffect(old, n, flags, q) ==
  IF (n.gameState # old.gameState \/ flags.cpDirty)
     /\ n.gameState = "PLAYING" /\ n.problem # 0
  THEN [q EXCEPT !.bubbles = createBubbles(n.nOpt), !.bubDirty = TRUE]
  ELSE q

\* timer effect, deps [gameState, timeLeft, handleAnswer, resetForNextQuestion];
\* resetForNextQuestion changes with score
TimerDepsChanged2(old, n) ==
  n.gameState # old.gameState \/ n.timeLeft # old.timeLeft \/ n.score # old.score

TimerExpires(old, n) ==
  TimerDepsChanged2(old, n) /\ n.gameState = "PLAYING" /\ n.timeLeft = 0

TimerEffect2(old, n, q) ==
  IF ~TimerDepsChanged2(old, n) THEN [q |-> q, timer |-> m2timer]
  ELSE IF n.gameState = "PLAYING" /\ n.timeLeft > 0 THEN [q |-> q, timer |-> "timeLeft"]
  ELSE IF n.gameState = "PLAYING" /\ n.timeLeft = 0
    THEN [q |-> handleAnswer2(q, "incorrect", 0), timer |-> "none"]
  ELSE IF n.gameState = "FEEDBACK" THEN [q |-> q, timer |-> "reset"]
  ELSE [q |-> q, timer |-> "none"]

\* bubble popping effect, deps [landmarks, gameState, bubbles, currentProblem, handleAnswer]
PopRuns(old, n, flags) ==
  /\ flags.lmDirty \/ flags.bubDirty \/ flags.cpDirty \/ n.gameState # old.gameState
  /\ n.gameState = "PLAYING" /\ n.tip # NoTip

Pops(old, n, flags) == IF PopRuns(old, n, flags) THEN poppedBy(n) ELSE {}

\* the forEach in index order: bubbles[index].popped = true on the shared
\* objects, setBubbles, handleAnswer
RECURSIVE popFrom(_, _, _, _)
popFrom(q, n, hit, i) ==
  IF i > Len(n.bubbles) THEN q
  ELSE IF i \in hit
  THEN popFrom(handleAnswer2([q EXCEPT !.bubbles = [j \in 1..Len(n.bubbles) |->
                                                      n.bubbles[j] \/ (j \in hit /\ j <= i)],
                                        !.bubDirty = TRUE],
                             IF i = n.problem THEN "correct" ELSE "incorrect", i),
               n, hit, i + 1)
  ELSE popFrom(q, n, hit, i + 1)

cap(k) == IF k > MaxCalls2 THEN MaxCalls2 ELSE k

RenderPending2 == Committed2(m2p) # m2 \/ m2p.lmDirty \/ m2p.bubDirty \/ m2p.cpDirty

\* One render: commit, then the effects in declaration order
BubbleRender ==
  LET n     == Committed2(m2p)
      flags == [lmDirty |-> m2p.lmDirty, bubDirty |-> m2p.bubDirty, cpDirty |-> m2p.cpDirty]
      q1    == CreateEffect(m2, n, flags, Queue2(n))
      te    == TimerEffect2(m2, n, q1)
      hit   == Pops(m2, n, flags)
      q3    == popFrom(te.q, n, hit, 1)
      made  == (IF TimerExpires(m2, n) THEN 1 ELSE 0) + Cardinality(hit)
      gains == Cardinality(hit \cap {n.problem})
      fresh == flags.cpDirty
  IN /\ RenderPending2
     /\ m2' = [n EXCEPT !.bubbles = [j \in 1..Len(n.bubbles) |-> n.bubbles[j] \/ j \in hit]]
     /\ m2p' = q3
     /\ m2timer' = te.timer
     /\ m2h' = [calls |-> made,
                answers |-> cap((IF fresh THEN 0 ELSE m2h.answers) + made),
                gain |-> cap((IF fresh THEN 0 ELSE m2h.gain) + gains)]
     /\ UNCHANGED <<m2fetch, bubbleOthers>>

\* callbacks of the timer effect's setTimeout
BubbleTimer ==
  /\ m2timer # "none"
  /\ m2timer' = "none"
  /\ \/ /\ m2timer = "timeLeft"
        /\ m2p' = [m2p EXCEPT !.timeLeft = @ - 1]
        /\ UNCHANGED m2fetch
     \/ /\ m2timer = "reset"        \* resetForNextQuestion
        /\ m2p' = [m2p EXCEPT !.feedback = "none", !.lastAnswer = 0,
                              !.bubbles = <<>>, !.bubDirty = TRUE,
                              !.gameState = "LOADING_PROBLEM"]
        /\ m2fetch' = m2fetch + 1
  /\ UNCHANGED <<m2, m2h, bubbleOthers>>

\* startGame up to `await startVideo()`; the camera delivers a video of width w
BubbleStartGame(w) ==
  /\ m2.gameState = "IDLE" /\ m2p.gameState = "IDLE" /\ m2fetch = 0
  /\ m2p' = [m2p EXCEPT !.score = 0, !.gameState = "LOADING", !.width = w]
  /\ UNCHANGED <<m2, m2timer, m2fetch, m2h, bubbleOthers>>

\* startVideo() returned: fetchNewProblem up to its await
BubbleStartVideoReturned ==
  /\ m2.gameState = "LOADING" /\ m2p.gameState = "LOADING"
  /\ m2p' = [m2p EXCEPT !.gameState = "LOADING_PROBLEM"]
  /\ m2fetch' = m2fetch + 1
  /\ UNCHANGED <<m2, m2timer, m2h, bubbleOthers>>

\* generateMathProblem2 resolved with n options, option `correct` being the answer
BubbleFetchResolved(n, correct) ==
  /\ m2fetch > 0 /\ m2p.score < MaxScore2
  /\ m2fetch' = m2fetch - 1
  /\ m2p' = [m2p EXCEPT !.problem = correct, !.nOpt = n, !.cpDirty = TRUE,
                        !.timeLeft = TIMER_SECONDS_2, !.gameState = "PLAYING"]
  /\ UNCHANGED <<m2, m2timer, m2h, bubbleOthers>>

\* generateMathProblem2 rejected
BubbleFetchRejected ==
  /\ m2fetch > 0
  /\ m2fetch' = m2fetch - 1
  /\ m2p' = [m2p EXCEPT !.gameState = "IDLE"]
  /\ UNCHANGED <<m2, m2timer, m2h, bubbleOthers>>

\* the hook publishes the landmarks of a frame (frames of the other states
\* are not read by any effect that acts)
BubbleLandmarks(tip) ==
  /\ m2.gameState = "PLAYING"
  /\ m2p' = [m2p EXCEPT !.tip = tip, !.lmDirty = TRUE]
  /\ UNCHANGED <<m2, m2timer, m2fetch, m2h, bubbleOthers>>

BubbleNext ==
  \/ (\E w \in CanvasWidths : BubbleStartGame(w))
  \/ BubbleStartVideoReturned
  \/ (\E n \in OptionCounts : \E correct \in 1..n : BubbleFetchResolved(n, correct))
  \/ BubbleFetchRejected
  \/ BubbleRender
  \/ BubbleTimer
  \/ (\E tip \in TipXs \cup {NoTip} : BubbleLandmarks(tip))

(***************************************************************************)
(* Part X.  MathChallengeClient: the one-second callbacks of a round.  The *)
(* controller is that of Part II with the hook as environment; roundTicks  *)
(* counts the timeLeft and holdTime callbacks since the render that        *)
(* displayed the current problem.  The AI call succeeds.                    *)
(***************************************************************************)

\* bound: cap of roundTicks, one more than a round may take
MaxRoundTicks == 19

\* bound: finger counts the hook reports during the round
RoundFingers == 0..1

RoundInit == roundTicks = 0

roundOthers == <<airPianoVars, camVars, classVars, scenVars, sketchVars, smoothVars, bubbleVars, staleVars, raceVars, ballVars, pongVars, paddleVars, drawVars, keysVars>>

\* a timeout expires; the renders scheduled before it have been flushed
RoundTimer ==
  /\ ~RenderPending
  /\ timerCallback
  /\ timer \in {"timeLeft", "holdTime"} => roundTicks < MaxRoundTicks
  /\ roundTicks' = IF timer \in {"timeLeft", "holdTime"} THEN roundTicks + 1 ELSE roundTicks
  /\ UNCHANGED roundOthers

RoundRender ==
  /\ RenderGame
  /\ roundTicks' = IF pend.cpDirty THEN 0 ELSE roundTicks
  /\ UNCHANGED <<fetches, roundOthers>>

RoundNext ==
  \/ StartGame
  \/ StartVideoReturned
  \/ InitializeDone(TRUE)
  \/ (\E s \in Solutions : FetchResolved(s))
  \/ RoundTimer
  \/ RoundRender
  \/ (\E f \in RoundFingers : Detect(f))

(***************************************************************************)
(* Part XI.  AirPianoClient across exitGame (stopVideo) and selectMode.    *)
(* stopVideo leaves the hook's `landmarks` and `handedness` as the last     *)
(* frame set them, and gameLoop reschedules itself on every animation      *)
(* frame in every gameState, with or without a new frame from the hook.    *)
(***************************************************************************)

StaleInit == stale = "fresh"

staleOthers == <<pianoVars, gameVars, holdHist, camVars, classVars, scenVars, sketchVars,
                 smoothVars, bubbleVars, roundVars, raceVars, ballVars, pongVars, paddleVars, drawVars, keysVars>>

\* predictWebcam publishes frame f and the re-subscribed gameLoop runs on it
StaleFrame(f) ==
  /\ gameLoopOn(FrameLandmarks(f), FrameHandedness(f))
  /\ stale' = "fresh"
  /\ UNCHANGED staleOthers

\* requestAnimationFrame(gameLoop) at the end of gameLoop: the next run, on
\* the landmarks the hook still holds
StaleRerun ==
  /\ gameLoopOn(landmarks, handedness)
  /\ UNCHANGED <<stale, staleOthers>>

\* exitGame: stopVideo(), trackedHandRef.current = null
StaleExitGame ==
  /\ exitGameRefs
  /\ stale' = "stopped"
  /\ UNCHANGED staleOthers

\* selectMode after `await startVideo()`
StaleSelectMode ==
  /\ selectModeRefs
  /\ stale' = IF stale = "stopped" THEN "restarted" ELSE stale
  /\ UNCHANGED staleOthers

StaleNext ==
  \/ (\E f \in Frames : StaleFrame(f))
  \/ StaleRerun
  \/ StaleExitGame
  \/ StaleSelectMode

(***************************************************************************)
(* Part XII.  useHandTracking: stopVideo() while a startVideo() call is    *)
(* awaiting the video element or getUserMedia.  The driver is the Math     *)
(* Challenge client of Parts II and III; stopVideo is called by its error  *)
(* effect.                                                                 *)
(***************************************************************************)

RaceInit == stopRace = FALSE

raceOthers == <<airPianoVars, classVars, scenVars, sketchVars, smoothVars, bubbleVars,
                roundVars, staleVars, ballVars, pongVars, paddleVars, drawVars, keysVars>>

RaceStartGame ==
  /\ startGameClick
  /\ stopRace' = FALSE
  /\ UNCHANGED raceOthers

RaceRender ==
  /\ renderCommit
  /\ stopRace' = IF ErrorEffectFires(st, Committed(pend)) THEN Len(calls) > 0 ELSE stopRace
  /\ UNCHANGED raceOthers

RaceNext ==
  \/ RaceStartGame
  \/ (\E i \in 1..MaxCalls : WaitForVideoResolved(i))
  \/ (\E i \in 1..MaxCalls : GetUserMediaResolved(i))
  \/ (\E i \in 1..MaxCalls : GetUserMediaRejected(i))
  \/ VideoReady
  \/ RaceRender
  \/ TimerFire
  \/ (\E s \in Solutions : FetchResolved(s))
  \/ FetchRejected
  \/ (\E ok \in BOOLEAN : InitializeDone(ok))

(***************************************************************************)
(* Part XIII.  PingPongBallClient.  Lengths are kept in tenths of a pixel  *)
(* so that ball.dx = deltaX * 0.1 stays an integer.  React state is the    *)
(* committed value plus the value queued for the next render; a render     *)
(* runs the effects in declaration order.                                  *)
(***************************************************************************)

Tenth == 10
PADDLE_WIDTH == 100
PADDLE_HEIGHT == 20
BALL_RADIUS == 10
BallCanvasWidth == 640
BallCanvasHeight == 480
BallSpeed == 4
BallStartOffset == 20
MaxGames == 2
MaxHits == 2
NoWrist == -1
WristXs == {25, 50, 85}      \* wrist.x of landmarks[0][0], in percent of the frame

px(n) == n * Tenth

clampTo(lo, hi, v) == IF v < lo THEN lo ELSE IF v > hi THEN hi ELSE v

initialPaddleX == px(BallCanvasWidth) \div 2 - px(PADDLE_WIDTH) \div 2

\* paddleX = (1 - wrist.x) * canvas.width - PADDLE_WIDTH / 2, clamped to the canvas
paddleFromWrist(w) ==
  clampTo(0, px(BallCanvasWidth - PADDLE_WIDTH),
          ((100 - w) * px(BallCanvasWidth)) \div 100 - px(PADDLE_WIDTH) \div 2)

BallInit ==
  pb = [gameState |-> "IDLE", pendState |-> "IDLE",
        score |-> 0, pendScore |-> 0,
        lm |-> NoWrist, lmNew |-> FALSE,
        error |-> FALSE, pendError |-> FALSE,
        isLoading |-> TRUE,
        cam |-> "off",
        x |-> 0, y |-> 0, dx |-> 0, dy |-> 0, paddle |-> 0,
        loop |-> FALSE,
        games |-> 0, hits |-> 0, resets |-> 0, entries |-> 0]

ballOthers == <<stickyVars, gameVars, holdHist, camVars, pianoVars, classVars, scenVars,
                sketchVars, smoothVars, bubbleVars, roundVars, staleVars, raceVars, pongVars, paddleVars, drawVars, keysVars>>

BallRenderPending ==
  \/ pb.pendState # pb.gameState
  \/ pb.pendScore # pb.score
  \/ pb.pendError # pb.error
  \/ pb.lmNew

\* resetGame: setScore(0), paddle centred, ball at the top with dx = +-4, dy = 4
resetGame(r, dir) ==
  [r EXCEPT !.pendScore = 0,
            !.paddle = initialPaddleX,
            !.x = px(BallCanvasWidth) \div 2,
            !.y = px(BALL_RADIUS + BallStartOffset),
            !.dx = dir * px(BallSpeed),
            !.dy = px(BallSpeed),
            !.resets = IF r.resets > MaxGames THEN r.resets ELSE r.resets + 1]

\* the initialize effect of the hook finished loading the model
BallInitializeDone ==
  /\ pb.isLoading
  /\ pb' = [pb EXCEPT !.isLoading = FALSE]
  /\ UNCHANGED ballOthers

\* handleStartGame from the Start Game / Play Again / Try Again button, with the
\* model loaded and no earlier call in flight: LOADING, then startVideo()
handleStartGame ==
  /\ ~pb.isLoading
  /\ ~BallRenderPending
  /\ pb.gameState \in {"IDLE", "GAME_OVER", "ERROR"}
  /\ pb.cam = "off"
  /\ pb.games < MaxGames
  /\ pb' = [pb EXCEPT !.pendState = "LOADING", !.pendError = FALSE,
                      !.cam = "starting", !.games = @ + 1]
  /\ UNCHANGED ballOthers

\* getUserMedia resolved: video.srcObject = stream; handleStartGame continues
BallVideoStarted ==
  /\ pb.cam = "starting"
  /\ pb' = [pb EXCEPT !.cam = "ready", !.pendState = "PLAYING"]
  /\ UNCHANGED ballOthers

\* getUserMedia rejected: setError(...), rethrow, handleStartGame sets ERROR
BallVideoFailed ==
  /\ pb.cam = "starting"
  /\ pb' = [pb EXCEPT !.cam = "off", !.pendError = TRUE, !.pendState = "ERROR"]
  /\ UNCHANGED ballOthers

\* predictWebcam, first from the loadeddata listener and then from its own
\* animation frame, past its guard: setLandmarks(results.landmarks || []) with
\* a new array, holding a hand with its wrist at w or no hand
BallPredictWebcam ==
  /\ pb.cam \in {"ready", "on"}
  /\ ~BallRenderPending
  /\ \E w \in WristXs \cup {NoWrist} :
       pb' = [pb EXCEPT !.cam = "on", !.lm = w, !.lmNew = TRUE]
  /\ UNCHANGED ballOthers

\* one run of gameLoop from the animation frame
gameLoopBall ==
  LET paddle == IF pb.lm # NoWrist THEN paddleFromWrist(pb.lm) ELSE pb.paddle
      x1 == pb.x + pb.dx
      y1 == pb.y + pb.dy
      dx1 == IF x1 - px(BALL_RADIUS) < 0 \/ x1 + px(BALL_RADIUS) > px(BallCanvasWidth)
             THEN -pb.dx ELSE pb.dx
      dy1 == IF y1 - px(BALL_RADIUS) < 0 THEN -pb.dy ELSE pb.dy
      paddleTop == px(BallCanvasHeight - PADDLE_HEIGHT)
      hit == /\ y1 + px(BALL_RADIUS) > paddleTop
             /\ y1 - px(BALL_RADIUS) < paddleTop + px(PADDLE_HEIGHT)
             /\ x1 + px(BALL_RADIUS) > paddle
             /\ x1 - px(BALL_RADIUS) < paddle + px(PADDLE_WIDTH)
             /\ dy1 > 0
      deltaX == x1 - (paddle + px(PADDLE_WIDTH) \div 2)
  IN  /\ pb.loop
      /\ ~BallRenderPending
      /\ pb' = [pb EXCEPT !.paddle = paddle,
                          !.x = x1, !.y = y1,
                          !.dx = IF hit THEN deltaX \div Tenth ELSE dx1,
                          !.dy = IF hit THEN -dy1 ELSE dy1,
                          !.pendScore = IF hit THEN @ + 1 ELSE @,
                          !.hits = IF hit /\ @ < MaxHits THEN @ + 1 ELSE @,
                          !.pendState = IF y1 > px(BallCanvasHeight) THEN "GAME_OVER" ELSE @]
      /\ UNCHANGED ballOthers

\* a render of the component: the error effect, then the game-state effect,
\* whose dependencies are gameState and gameLoop (landmarks, score)
BallRender ==
  /\ BallRenderPending
  /\ \E dir \in {-1, 1} :
       LET errFires == pb.pendError /\ ~pb.error
           gs == pb.pendState
           stateEffect == gs # pb.gameState \/ pb.pendScore # pb.score \/ pb.lmNew
           entering == gs = "PLAYING" /\ pb.gameState # "PLAYING"
           c == [pb EXCEPT !.gameState = gs, !.score = pb.pendScore, !.error = pb.pendError,
                           !.lmNew = FALSE,
                           !.pendState = IF errFires THEN "ERROR" ELSE gs,
                           !.entries = IF entering THEN @ + 1 ELSE @,
                           !.hits = IF entering THEN 0 ELSE @]
       IN  pb' = IF ~stateEffect THEN c
                 ELSE IF gs = "PLAYING"
                      THEN [resetGame(c, dir) EXCEPT !.loop = TRUE]
                      ELSE [c EXCEPT !.loop = FALSE,
                                     !.cam = IF gs \in {"IDLE", "GAME_OVER"} THEN "off" ELSE @]
  /\ UNCHANGED ballOthers

BallNext ==
  \/ BallInitializeDone
  \/ handleStartGame
  \/ BallVideoStarted
  \/ BallVideoFailed
  \/ BallPredictWebcam
  \/ gameLoopBall
  \/ BallRender

(***************************************************************************)
(* Part XIV.  PingPongClient (ping-pong/PingPongClient.tsx, first          *)
(* component of the file).  resetGame, gameLoop and update are plain       *)
(* functions of the render that created them: the gameOver they read is    *)
(* the state of that render, and requestAnimationFrame(gameLoop) keeps     *)
(* rescheduling the same closure.                                          *)
(***************************************************************************)

PONG_PADDLE_WIDTH == 120
PONG_PADDLE_HEIGHT == 15
PONG_BALL_RADIUS == 12
BALL_SPEED == 5
MaxResizes == 1
MaxPongFrames == 2
MaxPongScore == 1
\* clientWidth x clientHeight of the game canvas
CanvasSizes == {<<600, 300>>, <<480, 200>>}
\* indexFinger.x of landmarksRef.current[0][8], in percent of the frame
IndexTipXs == {20}

PongInit ==
  pp = [isLoading |-> TRUE,
        gameOver |-> FALSE, pendGameOver |-> FALSE,
        score |-> 0, pendScore |-> 0,
        w |-> 0, h |-> 0,
        x |-> 0, y |-> 0, vx |-> BALL_SPEED, vy |-> BALL_SPEED, paddle |-> 0,
        lmRef |-> NoWrist,
        loops |-> 0, loopSees |-> FALSE,
        resizes |-> 0, startedBy |-> "none", framesSince |-> 0, moved |-> FALSE]

pongOthers == <<stickyVars, gameVars, holdHist, camVars, pianoVars, classVars, scenVars,
                sketchVars, smoothVars, bubbleVars, roundVars, staleVars, raceVars, ballVars, paddleVars, drawVars, keysVars>>

PongRenderPending == pp.pendGameOver # pp.gameOver \/ pp.pendScore # pp.score

\* update() of a render whose gameOver was seesOver
updatePong(r, seesOver) ==
  IF seesOver THEN r
  ELSE
    LET x1 == r.x + r.vx
        y1 == r.y + r.vy
        vx1 == IF x1 - PONG_BALL_RADIUS < 0 \/ x1 + PONG_BALL_RADIUS > r.w THEN -r.vx ELSE r.vx
        vy1 == IF y1 - PONG_BALL_RADIUS < 0 THEN -r.vy ELSE r.vy
        hit == /\ vy1 > 0
               /\ y1 + PONG_BALL_RADIUS >= r.h - PONG_PADDLE_HEIGHT
               /\ x1 + PONG_BALL_RADIUS >= r.paddle
               /\ x1 - PONG_BALL_RADIUS <= r.paddle + PONG_PADDLE_WIDTH
        \* hitPoint * 60 degrees is (x - paddle centre) degrees; sin and cos are
        \* rounded to whole pixels per frame
        hp == x1 - (r.paddle + PONG_PADDLE_WIDTH \div 2)
        vx2 == IF hit THEN hp \div 8 ELSE vx1
        vy2 == IF hit THEN -(BALL_SPEED + 2 - (IF hp < 0 THEN -hp ELSE hp) \div 24) ELSE vy1
        over == y1 + PONG_BALL_RADIUS > r.h
        newPaddle == IF r.lmRef # NoWrist
                     THEN clampTo(0, r.w - PONG_PADDLE_WIDTH,
                                  ((100 - r.lmRef) * r.w) \div 100 - PONG_PADDLE_WIDTH \div 2)
                     ELSE r.paddle
    IN [r EXCEPT !.x = x1, !.y = y1,
                 !.vx = IF over THEN 0 ELSE vx2,
                 !.vy = IF over THEN 0 ELSE vy2,
                 !.pendScore = IF hit THEN @ + 1 ELSE @,
                 !.pendGameOver = IF over THEN TRUE ELSE @,
                 !.paddle = newPaddle,
                 !.moved = (@ \/ x1 # r.x \/ y1 # r.y)]

\* resetGame() of a render whose gameOver was seesOver, up to the first
\* gameLoop() call it makes: exactly one loop is scheduled afterwards
resetGamePong(r, dir, seesOver, by) ==
  LET c == [r EXCEPT !.pendScore = 0, !.pendGameOver = FALSE,
                     !.x = r.w \div 2, !.y = r.h \div 2,
                     !.vx = BALL_SPEED * dir, !.vy = -BALL_SPEED,
                     !.paddle = r.w \div 2 - PONG_PADDLE_WIDTH \div 2,
                     !.loops = (IF r.loops > 0 THEN r.loops - 1 ELSE 0) + 1,
                     !.loopSees = seesOver,
                     !.startedBy = by, !.framesSince = 0, !.moved = FALSE]
  IN updatePong(c, seesOver)

\* isLoading turns false: the canvas effect sizes the canvas and calls resetGame
PongInitializeDone(size, dir) ==
  /\ pp.isLoading
  /\ pp' = resetGamePong([pp EXCEPT !.isLoading = FALSE, !.w = size[1], !.h = size[2]],
                         dir, FALSE, "effect")
  /\ UNCHANGED pongOthers

\* the ResizeObserver callback created by that effect run
PongResize(size, dir) ==
  /\ ~pp.isLoading
  /\ pp.resizes < MaxResizes
  /\ pp' = resetGamePong([pp EXCEPT !.w = size[1], !.h = size[2], !.resizes = @ + 1],
                         dir, FALSE, "resize")
  /\ UNCHANGED pongOthers

\* onClick={resetGame} of the last render: Play Again on the game-over
\* overlay when gameOver is true, Restart Game otherwise
PongResetClick(dir) ==
  /\ ~pp.isLoading
  /\ ~PongRenderPending
  /\ pp' = resetGamePong(pp, dir, pp.gameOver, IF pp.gameOver THEN "overlay" ELSE "restart")
  /\ UNCHANGED pongOthers

\* the animation frame runs the scheduled gameLoop closure
PongFrame ==
  /\ pp.loops > 0
  /\ ~PongRenderPending
  /\ pp.score < MaxPongScore
  /\ pp' = [updatePong(pp, pp.loopSees) EXCEPT
              !.framesSince = IF @ < MaxPongFrames THEN @ + 1 ELSE @]
  /\ UNCHANGED pongOthers

\* the hook publishes a frame and the landmarks effect copies it into
\* landmarksRef: a hand with its index finger tip at tip, or no hand
PongLandmarks(tip) ==
  /\ ~pp.isLoading
  /\ tip # pp.lmRef
  /\ pp' = [pp EXCEPT !.lmRef = tip]
  /\ UNCHANGED pongOthers

PongRender ==
  /\ PongRenderPending
  /\ pp' = [pp EXCEPT !.gameOver = pp.pendGameOver, !.score = pp.pendScore]
  /\ UNCHANGED pongOthers

PongNext ==
  \/ (\E size \in CanvasSizes, dir \in {-1, 1} : PongInitializeDone(size, dir))
  \/ (\E size \in CanvasSizes, dir \in {-1, 1} : PongResize(size, dir))
  \/ (\E dir \in {-1, 1} : PongResetClick(dir))
  \/ PongFrame
  \/ (\E tip \in IndexTipXs \cup {NoWrist} : PongLandmarks(tip))
  \/ PongRender

(***************************************************************************)
(* Part XV.  HandTrackingPaddleLogic (src/hand-tracking-paddle-logic.ts).  *)
(* pending counts the animation-frame callbacks of the update loop that    *)
(* are scheduled; firstId says whether the id captured by the effect's     *)
(* cleanup still names a scheduled callback.                               *)
(***************************************************************************)

MaxMounts == 3
MaxPaddleFrames == 4
MaxLandmarkUpdates == 3

\* The component returns null and passes gameCanvasRef to no element, so
\* gameCanvasRef.current is null whenever the effect runs.
gameCanvasAttachedAlways == TRUE
gameCanvasAttached == FALSE

PaddleInit ==
  pd = [mounted |-> FALSE, isLoading |-> TRUE, pending |-> 0, firstId |-> FALSE,
        frames |-> 0, mounts |-> 0, updates |-> 0]

paddleOthers == <<stickyVars, gameVars, holdHist, camVars, pianoVars, classVars, scenVars,
                  sketchVars, smoothVars, bubbleVars, roundVars, staleVars, raceVars,
                  ballVars, pongVars, drawVars, keysVars>>

\* the effect body: early return without a canvas, else requestAnimationFrame(gameLoop)
paddleEffect(r) ==
  IF ~gameCanvasAttached THEN r
  ELSE [r EXCEPT !.pending = @ + 1, !.firstId = TRUE]

\* the effect cleanup: cancelAnimationFrame(animationFrameId), which removes
\* a callback only while the first frame of that loop has not run
paddleCleanup(r) ==
  IF ~gameCanvasAttached THEN r
  ELSE [r EXCEPT !.pending = IF r.firstId THEN @ - 1 ELSE @, !.firstId = FALSE]

\* mount: the first run of the effect
PaddleMount ==
  /\ ~pd.mounted
  /\ pd.mounts < MaxMounts
  /\ pd' = paddleEffect([pd EXCEPT !.mounted = TRUE, !.isLoading = TRUE,
                                   !.mounts = @ + 1, !.frames = 0, !.updates = 0])
  /\ UNCHANGED paddleOthers

\* the hook publishes new landmarks: the re-render runs the cleanup of the
\* previous effect run, then the effect again
PaddleLandmarks ==
  /\ pd.mounted
  /\ pd.updates < MaxLandmarkUpdates
  /\ pd' = paddleEffect(paddleCleanup([pd EXCEPT !.updates = @ + 1]))
  /\ UNCHANGED paddleOthers

\* the hook finished loading: a re-render with unchanged landmarks, no effect run
PaddleInitializeDone ==
  /\ pd.mounted
  /\ pd.isLoading
  /\ pd' = [pd EXCEPT !.isLoading = FALSE]
  /\ UNCHANGED paddleOthers

\* an animation frame of the browser: every scheduled gameLoop runs update()
\* and schedules itself again under a new id
PaddleFrame ==
  /\ pd.frames < MaxPaddleFrames
  /\ pd' = [pd EXCEPT !.frames = @ + 1, !.firstId = FALSE]
  /\ UNCHANGED paddleOthers

PaddleUnmount ==
  /\ pd.mounted
  /\ pd' = [paddleCleanup(pd) EXCEPT !.mounted = FALSE]
  /\ UNCHANGED paddleOthers

PaddleNext ==
  \/ PaddleMount
  \/ PaddleLandmarks
  \/ PaddleInitializeDone
  \/ PaddleFrame
  \/ PaddleUnmount

(***************************************************************************)
(* Part XVI.  SketchAndScoreClient: the DRAWING branch of the gesture      *)
(* effect.  A tick is one run of the effect on a frame published by the    *)
(* hook.  isPointing and isPinching (Part V) are taken per hand as facts   *)
(* of the frame.                                                           *)
(***************************************************************************)

MaxDrawRounds == 2
NoPos == 0
NoTool == "none"
DrawTips == 1..2
\* one detected hand: its label, what the classifiers say, its index finger tip
DrawHands == [categoryName : Labels, pointing : BOOLEAN, pinching : BOOLEAN, tip : DrawTips]
DrawFrames == UNION {[1..n -> DrawHands] : n \in 0..NumHands}

DrawInit ==
  dr = [gameState |-> "IDLE", drawingHand |-> "none", isMobile |-> FALSE,
        drawingTool |-> "PENCIL", lastPosition |-> NoPos, rounds |-> 0,
        active |-> FALSE, before |-> FALSE, segment |-> FALSE]

drawOthers == <<stickyVars, gameVars, holdHist, camVars, pianoVars, classVars, scenVars,
                sketchVars, smoothVars, bubbleVars, roundVars, staleVars, raceVars,
                ballVars, pongVars, paddleVars, keysVars>>

\* the for loop over handedness: the last hand labelled drawingHand, 0 if none
drawingIndex(f, hand) ==
  LET S == {i \in 1..Len(f) : f[i].categoryName = hand}
  IN IF S = {} THEN 0 ELSE CHOOSE i \in S : \A j \in S : j <= i

\* currentTool of the DRAWING branch for the resolved drawing hand h.
\* activeLandmark is set exactly when currentTool is; on a mobile the active
\* tool is the drawingTool state, which is never null.
currentTool(h, mobile) ==
  IF ~mobile /\ h.pinching THEN "ERASER"
  ELSE IF h.pointing THEN "PENCIL"
  ELSE NoTool

\* startGame(hand) up to the first shape: startVideo and fetchNewShape
\* resolve; useIsMobile() has settled on mobile by then
DrawStartGame(hand, mobile) ==
  /\ dr.gameState = "IDLE"
  /\ dr' = [dr EXCEPT !.gameState = "GET_READY", !.drawingHand = hand, !.rounds = 1,
                      !.isMobile = mobile]
  /\ UNCHANGED drawOthers

DrawCountdown ==
  /\ dr.gameState = "GET_READY"
  /\ dr' = [dr EXCEPT !.gameState = "COUNTDOWN"]
  /\ UNCHANGED drawOthers

DrawCountdownDone ==
  /\ dr.gameState = "COUNTDOWN"
  /\ dr' = [dr EXCEPT !.gameState = "DRAWING"]
  /\ UNCHANGED drawOthers

DrawSubmit ==
  /\ dr.gameState = "DRAWING"
  /\ dr' = [dr EXCEPT !.gameState = "SUBMITTING"]
  /\ UNCHANGED drawOthers

\* evaluatePlayerDrawing resolved (FEEDBACK) or rejected (back to DRAWING)
DrawEvaluated(ok) ==
  /\ dr.gameState = "SUBMITTING"
  /\ dr' = [dr EXCEPT !.gameState = IF ok THEN "FEEDBACK" ELSE "DRAWING"]
  /\ UNCHANGED drawOthers

\* handleNextQuestion: clearCanvas(), then the next shape is fetched
DrawNextQuestion ==
  /\ dr.gameState = "FEEDBACK"
  /\ dr.rounds < MaxDrawRounds
  /\ dr' = [dr EXCEPT !.gameState = "GET_READY", !.lastPosition = NoPos, !.rounds = @ + 1]
  /\ UNCHANGED drawOthers

\* the tool button of the mobile layout
DrawToggleTool ==
  /\ dr.isMobile
  /\ dr.gameState = "DRAWING"
  /\ dr' = [dr EXCEPT !.drawingTool = IF @ = "PENCIL" THEN "ERASER" ELSE "PENCIL"]
  /\ UNCHANGED drawOthers

\* one tick: the hook publishes frame f and the gesture effect runs on it;
\* ten says that detectedFingers === 10
DrawGestureEffect(f, ten) ==
  LET idx == drawingIndex(f, dr.drawingHand)
      resolved == idx # 0
      tool == IF resolved THEN currentTool(f[idx], dr.isMobile) ELSE NoTool
      early == Len(f) = 0 \/ dr.gameState \notin GestureStates
      tenClear == ~dr.isMobile /\ ten
      activeNow == ~early /\ ~tenClear /\ dr.gameState = "DRAWING" /\ tool # NoTool
      drawn == activeNow /\ dr.lastPosition # NoPos
  IN  /\ dr.gameState # "IDLE"
      /\ ten => Len(f) = NumHands
      /\ dr' = [dr EXCEPT
            !.gameState = IF ~early /\ tenClear /\ @ = "GET_READY" THEN "COUNTDOWN" ELSE @,
            !.lastPosition =
               IF early THEN @
               ELSE IF tenClear THEN (IF dr.gameState = "DRAWING" THEN NoPos ELSE @)
               ELSE IF activeNow THEN f[idx].tip
               ELSE NoPos,
            !.drawingTool =
               IF activeNow /\ ~dr.isMobile /\ tool # @ THEN tool ELSE @,
            !.segment = drawn,
            !.before = dr.active,
            !.active = activeNow]
      /\ UNCHANGED drawOthers

DrawNext ==
  \/ (\E hand \in Labels, mobile \in BOOLEAN : DrawStartGame(hand, mobile))
  \/ DrawCountdown
  \/ DrawCountdownDone
  \/ DrawSubmit
  \/ (\E ok \in BOOLEAN : DrawEvaluated(ok))
  \/ DrawNextQuestion
  \/ DrawToggleTool
  \/ (\E f \in DrawFrames, ten \in BOOLEAN : DrawGestureEffect(f, ten))

(***************************************************************************)
(* Part XVII.  AirPianoClient: the "Game Logic" block of gameLoop.  A      *)
(* frame is given by whether the target's time has run out, by the lanes   *)
(* whose finger passes the hit test (moving down, in the tap zone, not     *)
(* throttled), and by the values Math.random() gives for the new targets.  *)
(* tiles is the set of lanes whose tile state is 'target'.                 *)
(***************************************************************************)

MISTAKE_LIMIT == 3
MaxAbsScore == 3
MaxHitsPerFrame == 2
MaxDraws == 3
Lanes == 0..(LANE_COUNT - 1)
HitSets == {h \in SUBSET Lanes : Cardinality(h) <= MaxHitsPerFrame}
Draws == [1..MaxDraws -> Lanes]

KeysInit ==
  pk = [gameState |-> "IDLE", pendState |-> "IDLE",
        scoreRef |-> 0, mistakes |-> 0, targetLane |-> 0, tiles |-> {},
        timers |-> <<>>, used |-> 0,
        over |-> FALSE, scoreAtOver |-> 0, mistakesAtOver |-> 0]

keysOthers == <<stickyVars, gameVars, holdHist, camVars, pianoVars, classVars, scenVars,
                sketchVars, smoothVars, bubbleVars, roundVars, staleVars, raceVars,
                ballVars, pongVars, paddleVars, drawVars>>

\* setGameState('GAME_OVER'); the history fields keep the score and the
\* counter at the first such call of the game
setGameOver(r) ==
  IF r.over THEN [r EXCEPT !.pendState = "GAME_OVER"]
  ELSE [r EXCEPT !.pendState = "GAME_OVER", !.over = TRUE,
                 !.scoreAtOver = r.scoreRef, !.mistakesAtOver = r.mistakes]

\* "Check for missed target"
missedTarget(r, elapsed, draws) ==
  IF ~elapsed THEN r
  ELSE LET m == IF r.targetLane \in r.tiles
                THEN [r EXCEPT !.scoreRef = @ - 1, !.mistakes = @ + 1,
                               !.tiles = @ \ {r.targetLane},
                               !.timers = Append(@, [kind |-> "normalTarget", lane |-> 0])]
                ELSE r
       IN IF m.mistakes >= MISTAKE_LIMIT THEN setGameOver(m)
          ELSE [m EXCEPT !.targetLane = draws[m.used + 1], !.tiles = {draws[m.used + 1]},
                         !.used = @ + 1]

\* the body of smoothedFingersRef.current.forEach for a finger that hits
fingerHit(r, index, draws) ==
  IF index = r.targetLane
  THEN [r EXCEPT !.scoreRef = @ + 1, !.mistakes = 0,
                 !.tiles = @ \ {index},
                 !.targetLane = draws[r.used + 1],
                 !.used = @ + 1,
                 !.timers = Append(@, [kind |-> "fill", lane |-> draws[r.used + 1]])]
  ELSE LET w == [r EXCEPT !.scoreRef = @ - 1, !.mistakes = @ + 1,
                          !.tiles = @ \ {index},
                          !.timers = Append(@, [kind |-> "normal", lane |-> index])]
       IN IF w.mistakes >= MISTAKE_LIMIT THEN setGameOver(w) ELSE w

\* forEach visits the fingers in lane order
RECURSIVE fingerHits(_, _, _, _)
fingerHits(r, index, hits, draws) ==
  IF index >= LANE_COUNT THEN r
  ELSE fingerHits(IF index \in hits THEN fingerHit(r, index, draws) ELSE r,
                  index + 1, hits, draws)

gameLogic(r, elapsed, hits, draws) ==
  fingerHits(missedTarget([r EXCEPT !.used = 0], elapsed, draws), 0, hits, draws)

\* selectMode / restartGame after startVideo resolved: the refs are reset and
\* the countdown starts
KeysSelectMode(initialTarget) ==
  /\ pk.gameState \in {"IDLE", "GAME_OVER"}
  /\ pk.pendState = pk.gameState
  /\ pk.timers = <<>>
  /\ pk' = [pk EXCEPT !.pendState = "COUNTDOWN", !.scoreRef = 0, !.mistakes = 0,
                      !.targetLane = initialTarget, !.tiles = {initialTarget},
                      !.over = FALSE, !.scoreAtOver = 0, !.mistakesAtOver = 0]
  /\ UNCHANGED keysOthers

\* the countdown interval reaches 0: setGameState('PLAYING')
KeysCountdownDone ==
  /\ pk.gameState = "COUNTDOWN"
  /\ pk.pendState = pk.gameState
  /\ pk' = [pk EXCEPT !.pendState = "PLAYING"]
  /\ UNCHANGED keysOthers

\* a run of the gameLoop whose closure holds gameState 'PLAYING'
KeysFrame(elapsed, hits, draws) ==
  /\ pk.gameState = "PLAYING"
  /\ pk.pendState = pk.gameState
  /\ pk.timers = <<>>
  /\ pk.scoreRef \in (-MaxAbsScore + 1)..(MaxAbsScore - 1)
  /\ pk' = gameLogic(pk, elapsed, hits, draws)
  /\ UNCHANGED keysOthers

\* the oldest 100 ms timeout fires
KeysTimeout ==
  /\ pk.timers # <<>>
  /\ LET t == Head(pk.timers)
     IN pk' = [pk EXCEPT !.timers = Tail(@),
                         !.tiles = CASE t.kind = "fill" -> {t.lane}
                                     [] t.kind = "normal" -> @ \ {t.lane}
                                     [] OTHER -> @ \ {pk.targetLane}]
  /\ UNCHANGED keysOthers

KeysRender ==
  /\ pk.pendState # pk.gameState
  /\ pk' = [pk EXCEPT !.gameState = pk.pendState]
  /\ UNCHANGED keysOthers

KeysNext ==
  \/ (\E initialTarget \in Lanes : KeysSelectMode(initialTarget))
  \/ KeysCountdownDone
  \/ (\E elapsed \in BOOLEAN, hits \in HitSets, draws \in Draws : KeysFrame(elapsed, hits, draws))
  \/ KeysTimeout
  \/ KeysRender

vars == <<stickyVars, gameVars, holdHist, camVars, pianoVars, auxVars>>

AllInit == StickyInit /\ GameInit /\ CamInit /\ PianoInit /\ ClassInit /\ ScenInit /\ SketchInit /\ SmoothInit
           /\ BubbleInit /\ RoundInit /\ StaleInit /\ RaceInit /\ BallInit /\ PongInit /\ PaddleInit /\ DrawInit /\ KeysInit

SpecSticky == AllInit /\ [][StickyNext]_vars

SpecCam == AllInit /\ [][CamNext]_vars

SpecHold == AllInit /\ [][HoldNext]_vars

SpecPiano == AllInit /\ [][PianoNext]_vars

SpecClass == AllInit /\ [][ClassNext]_vars

SpecScen == AllInit /\ [][ScenNext]_vars

SpecSketch == AllInit /\ [][SketchNext]_vars

SpecSmooth == AllInit /\ [][SmoothNext]_vars

SpecBubble == AllInit /\ [][BubbleNext]_vars

SpecRound == AllInit /\ [][RoundNext]_vars

SpecStale == AllInit /\ [][StaleNext]_vars

SpecRace == AllInit /\ [][RaceNext]_vars

SpecBall == AllInit /\ [][BallNext]_vars

SpecPong == AllInit /\ [][PongNext]_vars

SpecPaddle == AllInit /\ [][PaddleNext]_vars

SpecDraw == AllInit /\ [][DrawNext]_vars

SpecKeys == AllInit /\ [][KeysNext]_vars

(***************************************************************************)
(* Claims                                                                  *)
(***************************************************************************)

\* C1: every confirmation of a hold happens on the render that commits the
\* third hold tick (holdTime 0), carries the candidate the hold started with,
\* and is the only one of that hold; a hold that reaches holdTime 0 is
\* confirmed in that very render.
C1_HoldConfirmsOnce ==
  /\ [](/\ nConfirm <= 1
        /\ (st.gameState = "HOLDING" /\ st.holdTime = 0) => nConfirm = 1)
  /\ [][nConfirm' > nConfirm =>
          /\ nConfirm = 0
          /\ holdTicks = ANSWER_HOLD_SECONDS
          /\ st'.holdTime = 0
          /\ st'.potentialAnswer = held
          /\ pend'.lastSubmittedAnswer = held
          /\ pend'.feedback # "none"]_vars

\* a sustained hold of a candidate has just been confirmed
C1_Witness ==
  /\ nConfirm = 1
  /\ holdTicks = ANSWER_HOLD_SECONDS
  /\ st.gameState = "HOLDING" /\ st.holdTime = 0
  /\ st.detectedFingers = held /\ pend.detectedFingers = held
  /\ pend.gameState = "FEEDBACK" /\ pend.lastSubmittedAnswer = held

\* C2 (as stated): when a finger count different from the held candidate has
\* been observed before the last hold tick fires, no confirmation fires for
\* the held candidate.
C2_DeviationCancels ==
  [][nConfirm' > nConfirm => ~devBeforeElapse]_vars

\* C3 (as stated): a confirmation that follows an earlier confirmation of the
\* same game is preceded by an observation of a finger count other than the
\* confirmed one (the gesture was released in between).
C3_ReleaseBetweenConfirmations ==
  [][(nConfirm' > nConfirm /\ everConfirmed) => released]_vars

\* C4: once trackedHandRef is locked, a gameLoop tick whose frame contains at
\* least one hand neither clears the lock nor moves it to another label.
C4_LockKeptWhileHandsDetected ==
  [][(trackedHandRef # Null /\ sOp' = "gameLoop" /\ Len(landmarks') > 0)
       => trackedHandRef' = trackedHandRef]_vars

\* the locked label is absent from a non-empty frame: no data, lock kept
C4_Witness ==
  /\ sOp = "gameLoop"
  /\ absentRun >= 1
  /\ Len(landmarks) > 0
  /\ trackedHandRef = runLabel /\ runLabel # Null
  /\ handLandmarks = NoHand

\* C5 (as stated): a gameLoop tick on an entirely empty frame leaves the role
\* unlocked.
C5_EmptyFrameClearsLock ==
  (sOp = "gameLoop" /\ Len(landmarks) = 0) => trackedHandRef = Null

\* C6: with one Left and one Right hand in the frame, in either order, a role
\* locked to Right resolves to the landmarks of the hand labelled Right, in
\* Air Piano (findIndex) and in Sketch & Score (drawingHand = Right).
C6_OrderIndependent ==
  (/\ sOp = "gameLoop"
   /\ trackedHandRef = "Right"
   /\ Len(handedness) = 2
   /\ handedness[1] # handedness[2])
  => \A i \in 1..2 :
       handedness[i] = "Right" =>
         /\ handLandmarks = landmarks[i]
         /\ drawingHandLandmarks(landmarks, handedness, "Right") = landmarks[i]

\* the Right hand sits at the second array index and is the one resolved
C6_Witness ==
  /\ sOp = "gameLoop"
  /\ trackedHandRef = "Right"
  /\ handedness = <<"Left", "Right">>
  /\ landmarks[1] # landmarks[2]
  /\ handLandmarks = landmarks[2]

C8_NoGameplayAfterError ==
  errPhase = "idle" =>
    st.gameState \notin {"LOADING_PROBLEM", "PLAYING", "HOLDING", "FEEDBACK"}

\* C9 (as stated): whenever the game is in IDLE (committed, nothing queued),
\* no camera stream is live.
C9_CameraReleasedInIdle ==
  (st.gameState = "IDLE" /\ pend.gameState = "IDLE") => live = {}

\* C10 (as stated): at most one getUserMedia stream is live at any time.
C10_AtMostOneLiveStream ==
  Cardinality(live) <= 1

\* C11 (as stated): a step of startGame leaves the hold session Idle: no
\* candidate (potentialAnswer null) and no feedback shown, whatever state
\* the previous run ended in.
C11_StartResetsHoldSession ==
  [][StartGame => (pend'.potentialAnswer = NoAnswer /\ pend'.feedback = "none")]_vars

\* C12 (as stated): a game started again after a failed start, with the camera
\* granted and the predictWebcam loop running, is in gameplay with hand
\* detection: the landmarker the loop needs exists.
C12_RetryReachesDetection ==
  (/\ st.gameState = "PLAYING"
   /\ videoMounted /\ srcObject \in live
   /\ requestRef)
  => handLandmarkerRef

\* C13 (as stated): at most one countdown interval is pending at any time,
\* the countdown falls by at most 1 in one second, and the expiry transition
\* to PLAYING fires at most once per startCountdown.
C13_OneTimerPerClass ==
  /\ Cardinality(intervals) <= 1
  /\ decInSecond <= 1
  /\ expiries <= 1

\* C14 (as stated): when the hand-tracking-error path has released the camera
\* (the error effect ran stopVideo and queued IDLE), the timers of the
\* cancelled game have already been cancelled: none is pending.
C14_TimersCancelledBeforeRelease ==
  errPhase = "handled" => timer = "none"

\* C15 (as stated): the classifiers are total: countFingers never throws, and a
\* hand with fewer than 21 landmarks is classified neutrally (no finger counted,
\* not pointing, not pinching).
C15_ClassifiersTotal ==
  /\ cPc # "threw"
  /\ cHandLen < NumLandmarks =>
       (cRaised = 0 /\ ~gResult.pointing /\ ~gResult.pinching)

\* C16: on a frame of at most NumHands complete hands every hand counts between
\* 0 and 5 fingers and the running total stays between 0 and 5 per hand counted,
\* so the returned detectedFingers is between 0 and 10.
C16_CountInRange ==
  cPc \in {"loop", "returned"} =>
    /\ cRaised \in 0..5
    /\ cI <= NumHands
    /\ cTotal \in 0..(5 * cI)
    /\ cTotal <= 10

\* C16 witness: two complete open hands have been counted and 10 is returned.
C16_Witness ==
  cPc = "returned" /\ cLen = NumHands /\ cI = NumHands /\ cTotal = 10

\* the samples of the end-to-end scenario: the index finger is curled at tick 1
\* and extended from tick 2 on
Scenario == <<0, 1, 1, 1, 1>>
InScenario == tick >= 1 /\ shown = SubSeq(Scenario, 1, Len(shown))
Settled == phase = "settle" /\ ~RenderPending

\* C17 (as stated): in the scenario the finger is classified not extended at
\* tick 1 and extended from tick 2 on, and the 3-tick hold is confirmed at
\* tick 4 (held at ticks 2, 3 and 4), not earlier.
C17_ConfirmedAtTick4 ==
  InScenario =>
    /\ Settled => pend.detectedFingers = (IF tick = 1 THEN 0 ELSE 1)
    /\ everConfirmed => confirmedAt = 4
    /\ (Settled /\ tick = 4) => everConfirmed

\* C17 (amended): same classification, and the hold that starts with the sample
\* of tick 2 is confirmed at tick 5, when three hold timeouts have expired
\* (ticks 3, 4 and 5), not earlier.
C17_ConfirmedAtTick5 ==
  InScenario =>
    /\ Settled => pend.detectedFingers = (IF tick = 1 THEN 0 ELSE 1)
    /\ everConfirmed => (confirmedAt = 5 /\ confirmedWith = 1)
    /\ (Settled /\ tick = 5) => everConfirmed

\* C17 witness: the scenario has run to tick 5 and the hold was confirmed there.
C17_Witness ==
  /\ shown = Scenario /\ tick = 5 /\ Settled
  /\ everConfirmed /\ confirmedAt = 5 /\ st.lastSubmittedAnswer = 1

\* C18 (as stated): for every solution s, showing exactly s fingers at every
\* tick gets the answer accepted as correct and the score raised by one.
C18_EverySolutionAnswerable ==
  (/\ tick = MaxTicks /\ Settled
   /\ \A i \in 1..Len(shown) : shown[i] = st.currentProblem)
  => (everConfirmed /\ confirmedWith = st.currentProblem /\ st.score = 1)

\* C19: a gameLoop tick that begins with the role unbound locks it exactly when
\* the frame contains a hand: the lock is the label of the hand detected first
\* and the same tick resolves to that hand's landmarks; on an empty frame the
\* role stays unbound and resolves to nothing.
C19_LockOnFirstAppearance ==
  (sOp = "gameLoop" /\ unboundBefore) =>
    IF Len(landmarks) > 0
    THEN trackedHandRef = handedness[1] /\ handLandmarks = landmarks[1]
    ELSE trackedHandRef = Null /\ handLandmarks = NoHand

\* C19 witness: the role was unbound, a Right and a Left hand appeared, and the
\* tick locked onto Right and resolved to the Right hand's landmarks.
C19_Witness ==
  /\ sOp = "gameLoop" /\ unboundBefore
  /\ handedness = <<"Right", "Left">>
  /\ trackedHandRef = "Right"
  /\ handLandmarks = landmarks[1] /\ landmarks[1] # landmarks[2]

\* C20: after every run of the gesture effect no hand of the frame holds both
\* the drawing and the gesture role, each role holds at most one hand of the
\* frame, the drawing role only a hand labelled drawingHand and the gesture
\* role only a hand labelled otherwise, also when both hands carry one label.
C20_RolesDisjoint ==
  /\ skRoles.drawing \in 0..Len(handedness)
  /\ skRoles.gesture \in 0..Len(handedness)
  /\ skRoles.drawing # 0 =>
       (skRoles.drawing # skRoles.gesture /\ handedness[skRoles.drawing] = skDrawingHand)
  /\ skRoles.gesture # 0 => handedness[skRoles.gesture] # skDrawingHand

\* C20 witness: two hands carrying the drawing hand's label were in the frame
\* while drawing; the drawing role holds one of them, the gesture role none.
C20_Witness ==
  /\ skGameState = "DRAWING"
  /\ skDrawingHand = "Right"
  /\ handedness = <<"Right", "Right">>
  /\ skRoles = [drawing |-> 2, gesture |-> 0]

\* C21 (as stated): for a complete hand isPointing is true exactly when the
\* index finger is extended and none of middle, ring and pinky is, a finger
\* being extended iff its tip y is strictly smaller than its PIP y.
C21_PointingIffIndexOnly ==
  gD2 # NoDistance =>
    (gResult.pointing = (gExt[1] /\ ~gExt[2] /\ ~gExt[3] /\ ~gExt[4]))

\* C22: the thumb adds 0 or 1 to a hand's count; with label Right it is counted
\* iff its tip lies left of the reference joint, with Left iff right of it, and
\* without a label only when the side guessed from thumb base and index base
\* agrees with the tip (the first variant never counts it without a label).
C22_ThumbByLabel ==
  (cPc \in {"loop", "returned"} /\ cI > 0) =>
    LET counted == (cRaised - cFour = 1)
    IN /\ cRaised - cFour \in {0, 1}
       /\ cThumb.label = "Right" => (counted = (cThumb.tip = -1))
       /\ cThumb.label = "Left" => (counted = (cThumb.tip = 1))
       /\ cThumb.label = "Unknown" =>
            /\ counted = (IF cThumb.base THEN cThumb.tip = 1 ELSE cThumb.tip = -1)
            /\ cThumb.tip = 0 => ~counted
            /\ ~cThumb.first

\* C22 witness: a hand without label, thumb base left of the index base and
\* thumb tip right of its joint, was counted with the thumb.
C22_Witness ==
  /\ cPc \in {"loop", "returned"} /\ cI > 0
  /\ cThumb.label = "Unknown" /\ cThumb.base /\ cThumb.tip = 1
  /\ cRaised = cFour + 1

\* C23: isPinching is true iff the thumb-tip / index-tip distance is strictly
\* below 0.05; the distances 0.12, 0.03 and 0.02 give false, true, true.
C23_PinchBelowThreshold ==
  gD2 # NoDistance =>
    /\ gResult.pinching = (gD2 < PinchThreshold * PinchThreshold)
    /\ gD2 = 12 * 12 => ~gResult.pinching
    /\ gD2 = 3 * 3 => gResult.pinching
    /\ gD2 = 2 * 2 => gResult.pinching

\* C23 witness: a complete hand with the tips 0.03 apart was classified as a pinch.
C23_Witness ==
  gD2 = 3 * 3 /\ gResult.pinching /\ cHandLen = NumLandmarks

\* C24: in a gameLoop run every lane's smoothed point depends on that lane
\* alone: a lane without observation keeps its point, the first observation
\* seeds smoothed = raw, a later one moves the lane from its own previous
\* value toward its own raw value; a run without hand data changes no lane.
C24_LaneOwnsSmoother ==
  [][smTicks' = smTicks + 1 =>
       \A i \in 1..LANE_COUNT :
         IF smRaw'[i] = NoRaw THEN smoothed'[i] = smoothed[i]
         ELSE /\ smoothed'[i].set
              /\ smoothed'[i].y = IF smoothed[i].set
                                  THEN lerp(smoothed[i].y, smRaw'[i], SMOOTHING_FACTOR)
                                  ELSE smRaw'[i]]_vars

\* C24 witness: lanes 0 and 1 were seeded at different heights, moved toward
\* each other's height, and the last run had no hand data.
C24_Witness ==
  /\ smTicks = 3
  /\ \A i \in 1..LANE_COUNT : smRaw[i] = NoRaw
  /\ smoothed[1].set /\ smoothed[2].set
  /\ smoothed[1].y = lerp(5, 10, SMOOTHING_FACTOR)
  /\ smoothed[2].y = lerp(10, 5, SMOOTHING_FACTOR)
  /\ smoothed[1].y # smoothed[2].y

\* C25 (as stated): when a lane's raw value is the same as in the run before,
\* the smoothed value does not move away from it and does not pass it.
C25_MonotoneNoOvershoot ==
  [][smTicks' = smTicks + 1 =>
       \A i \in 1..LANE_COUNT :
         (smRaw'[i] # NoRaw /\ smRaw'[i] = smRaw[i] /\ smoothed[i].set) =>
           LET r == smRaw'[i]
               a == smoothed[i].y
               b == smoothed'[i].y
           IN /\ (IF b >= r THEN b - r ELSE r - b) <= (IF a >= r THEN a - r ELSE r - a)
              /\ a <= r => b <= r
              /\ a >= r => b >= r]_vars

\* the controller moves the claim lists
SketchMoves ==
  {<<"IDLE", "LOADING_CAMERA">>, <<"LOADING_CAMERA", "GET_READY">>,
   <<"GET_READY", "COUNTDOWN">>, <<"COUNTDOWN", "DRAWING">>,
   <<"DRAWING", "SUBMITTING">>, <<"SUBMITTING", "FEEDBACK">>,
   <<"FEEDBACK", "GET_READY">>, <<"SUBMITTING", "DRAWING">>}

\* C26 (as stated): gameState of Sketch & Score changes only along the listed
\* moves or to IDLE, and DRAWING is entered from COUNTDOWN only when the
\* countdown has been decremented COUNTDOWN_SECONDS times down to 0.
C26_SketchTransitions ==
  [][/\ skGameState' # skGameState =>
          (<<skGameState, skGameState'>> \in SketchMoves \/ skGameState' = "IDLE")
     /\ (skGameState = "COUNTDOWN" /\ skGameState' = "DRAWING") =>
          (skAux.countdown = 0 /\ skAux.decs = COUNTDOWN_SECONDS)]_vars

\* C27: a FEEDBACK episode of Math Challenge ends only after
\* resetForNextQuestion ran (feedback cleared, a new problem requested) and a
\* problem is requested at most once during the episode, by the feedback
\* timer; an episode cut short by the hand-tracking error effect is left aside.
C27_FeedbackTransient ==
  /\ [][(st.gameState = "FEEDBACK" /\ st'.gameState # "FEEDBACK") =>
          \/ (st'.feedback = "none"
              /\ st'.gameState \in {"LOADING_PROBLEM", "PLAYING", "IDLE"})
          \/ (st'.handTrackingError /\ st'.gameState = "IDLE")]_vars
  /\ [][(st.gameState = "FEEDBACK" /\ fetches' > fetches) =>
          (timer = "reset" /\ timer' = "none" /\ fetches' = fetches + 1)]_vars

\* C28: in Math Challenge 2 a render makes at most one handleAnswer call, a
\* problem gets at most one answer, and in FEEDBACK the score has grown by 1
\* for the problem iff the feedback shown is 'correct', otherwise by 0.
C28_OneAnswerPerProblem ==
  /\ m2h.calls <= 1
  /\ m2h.answers <= 1
  /\ m2.gameState = "FEEDBACK" =>
       m2h.gain = (IF m2.feedback = "correct" THEN 1 ELSE 0)

\* C29: every step of Math Challenge that increments the score or sets the
\* feedback leaves gameState FEEDBACK in the same batch of updates, and a
\* committed state shows feedback only in FEEDBACK.
C29_AnswerLeavesFeedback ==
  [][/\ (pend'.score > pend.score \/ (pend'.feedback # "none" /\ pend.feedback = "none"))
          => pend'.gameState = "FEEDBACK"
     /\ st'.feedback # "none" => st'.gameState = "FEEDBACK"]_vars

\* C30: a round of Math Challenge that is still in PLAYING or HOLDING has
\* seen at most PROBLEM_TIMER_SECONDS + ANSWER_HOLD_SECONDS one-second timer
\* callbacks since its problem was displayed.
C30_RoundBounded ==
  st.gameState \in {"PLAYING", "HOLDING"} =>
    roundTicks <= PROBLEM_TIMER_SECONDS + ANSWER_HOLD_SECONDS

\* C31: whenever Math Challenge is in PLAYING or HOLDING, a camera stream is
\* attached to the video element and live, and the prediction loop is
\* scheduled or about to be ('loadeddata' pending).
C31_GameplayHasCamera ==
  st.gameState \in {"PLAYING", "HOLDING"} =>
    (srcObject \in live /\ (requestRef \/ readyPending))

\* C32: in Air Piano, after exitGame (stopVideo) and a new selectMode, the
\* role stays unlocked until the hook has published a frame processed after
\* the new start.
C32_NoLockFromStaleFrame ==
  stale = "restarted" => trackedHandRef = Null

\* C33: when stopVideo() ran while a startVideo() call was in flight and
\* every call has finished since, no stream is attached to the video
\* element, no stream is live and no prediction frame is scheduled or pending.
C33_StopWinsOverStart ==
  (stopRace /\ calls = <<>>) =>
    (srcObject = 0 /\ live = {} /\ ~requestRef /\ ~readyPending)

\* C34: Ping Pong Ball resets ball and score only on a transition into
\* PLAYING (resetGame has run exactly once per entry), and the score shown at
\* GAME_OVER equals the number of paddle hits since the game was started.
C34_ResetOnlyOnEntry ==
  /\ pb.resets = pb.entries
  /\ (pb.gameState = "GAME_OVER" /\ ~BallRenderPending) => pb.score = pb.hits


\* C35: Ping Pong: in a game started by resetGame from the game-over overlay,
\* once the reset is rendered, the animation frames that have run moved the
\* ball, and exactly one animation loop is running.
C35_OverlayResetPlayable ==
  (pp.startedBy = "overlay" /\ ~PongRenderPending /\ ~pp.gameOver /\ pp.framesSince > 0) =>
    (pp.moved /\ pp.loops = 1)

C37_SegmentNeedsTwoActiveTicks ==
  dr.segment => (dr.active /\ dr.before)

\* C38: Air Piano: the consecutive-mistake counter reaches 3 only together
\* with GAME_OVER being set, and once GAME_OVER has been set the score and
\* the counter keep the values they had at that moment until the restart.
C38_GameOverFreezesScore ==
  /\ pk.mistakes >= MISTAKE_LIMIT => pk.over
  /\ pk.over => (pk.scoreRef = pk.scoreAtOver /\ pk.mistakes = pk.mistakesAtOver)

====
